---- MODULE Spec2Model ----
EXTENDS Integers, Sequences, FiniteSets, TLC

(***************************************************************************)
(* Model of the command dispatcher of orbyfied/obl                         *)
(*   src/src/util/strings.ts              StringReader, ParseResult,       *)
(*                                        ParseContext, Parsers            *)
(*   src/src/services/command-service.ts  CommandContext, CommandResult,   *)
(*                                        CommandDispatcher                *)
(* Strings are sequences of one-character strings; the reader index is     *)
(* 0-based as in the source.                                               *)
(***************************************************************************)

\* The largest number of whitespace-separated tokens of an input line.
MaxTokens == 4

\* the longest list of results a MutliFailResult is built from
MaxResults == 2

\* the longest message of a rendered result, in characters
MaxMessageLen == 4

\* the longest string a parser is applied to
MaxParserLen == 4

\* the most conditions and actions an interaction is given, the most entries
\* of a trigger's listener list, and the most events delivered
MaxConditions == 2

MaxActions == 2

MaxListeners == 2


\* the longest string a reader is driven over, the largest step of next(n) and
\* back(n), and the deepest index stack
MaxReaderLen == 3

MaxStep == 2

MaxStack == 1

VARIABLES
    str,               \* StringReader.str of ctx.reader
    idx,               \* StringReader.idx
    ist,               \* StringReader.ist, the index stack
    order,             \* children of the root command node, in registration order
    pc,                \* position of the dispatch: start, loop, await, done
    command,           \* ctx.command
    currentNode,       \* dispatch's local currentNode
    executor,          \* dispatch's local executor (the node that declared it)
    nodeStack,         \* ctx.nodeStack
    registeredFlags,   \* ctx.registeredFlags: key -> flag
    flagResults,       \* ctx.flagResults: flag name -> heap reference
    argResults,        \* ctx.argResults: argument name -> heap reference
    awaitableResults,  \* ctx.awaitableResults: heap references of pending results
    heap,              \* the ParseResult objects created by this dispatch
    returned,          \* the promise dispatch returned
    tested,            \* history: assertions tested, with the cursor at the test
    entered,           \* history: nodes reaching the loop body, with the cursor
    selections,        \* history: the findNext calls and what they selected
    invoked,           \* history: executor invocations
    settleLog,         \* history: order in which pending results settled
    parseLog,          \* history: the ctx.parse calls and how each came out
    subResults,        \* the fail-like results handed to new MutliFailResult
    multi,             \* the MutliFailResult constructed from them
    unwrapped,         \* history: the unwrap() calls and what each returned
    rendered,          \* a result with its message, and the description built from it
    parsed,            \* history: the parse and emit calls made on a Parser
    objects,           \* the Interaction objects: reference -> fields
    interactions,      \* InteractionManager.interactions: id -> reference
    interactionsByName, \* InteractionManager.interactionsByName: name -> reference
    listeners,         \* the listeners array of the event trigger
    callLog,           \* history: events, and the calls each trigger() made
    thrown,            \* the exception the latest call on an interaction threw
    confirm,           \* warnedConfirmMessage: per interaction, the timer and the calls made
    source,            \* the interaction handed to the serialization logic
    persisted,         \* the interactions list of the persisted data
    serialOut,         \* the latest serialization call and what it produced
    busListeners,      \* EventBus.listeners: event -> the user list of its MultiListener
    handled,           \* history: the latest publish and the listeners it invoked
    baseNode,          \* the permission tree of a group: node path -> permit
    lastSet,           \* the latest PermissionNode.set call
    checkLog,          \* the latest check call and its result for every default
    servicesList,      \* ServiceManager.servicesList followed by modulesList
    dependencies,      \* service -> the services its @dependency fields name
    onLoadThrows,      \* the services whose onLoad throws
    loadedFlags,       \* service -> BaseService.loaded
    injectedProps,     \* service -> the dependencies assigned to its fields
    onLoadLog,         \* history: the onLoad calls of loadAll
    operations,        \* AsyncQueue.operations
    opQueued,          \* the QueuedOperation objects: func and queued
    promises,          \* the promises queue() returned, in call order
    opCalls            \* history: op.call() invocations, with the drain they ran in

readerVars == <<str, idx, ist>>

contextVars == <<order, pc, command, currentNode, executor, nodeStack,
                 registeredFlags, flagResults, argResults, awaitableResults, heap,
                 returned, tested, entered, selections, invoked, settleLog, parseLog>>

resultVars == <<subResults, multi, unwrapped>>

\* the variables outside the dispatch of a command line
renderVars == <<rendered>>

parserVars == <<parsed>>

interactionVars == <<objects, interactions, interactionsByName, listeners, callLog,
                     thrown>>

confirmVars == <<confirm>>

serialVars == <<source, persisted, serialOut>>

busVars == <<busListeners, handled>>

permissionVars == <<baseNode, lastSet, checkLog>>

serviceVars == <<servicesList, dependencies, onLoadThrows, loadedFlags, injectedProps,
                 onLoadLog>>

queueVars == <<operations, opQueued, promises, opCalls>>

managerVars == <<busVars, permissionVars, serviceVars, queueVars>>

harnessVars == <<resultVars, renderVars, parserVars, interactionVars, confirmVars,
                 serialVars, managerVars>>

\* the variables outside the results under construction, and outside the
\* result being rendered
outsideResults == <<readerVars, contextVars, renderVars, parserVars, interactionVars,
                    confirmVars, serialVars, managerVars>>

outsideRender == <<readerVars, contextVars, resultVars, parserVars, interactionVars,
                   confirmVars, serialVars, managerVars>>

outsideParsers == <<contextVars, resultVars, renderVars, interactionVars, confirmVars,
                    serialVars, managerVars>>

outsideConfirm == <<readerVars, contextVars, resultVars, renderVars, parserVars,
                    serialVars, managerVars>>

outsideSerial == <<readerVars, contextVars, resultVars, renderVars, parserVars,
                   interactionVars, confirmVars, managerVars>>

\* the variables outside the event bus, the permissions, the services and the
\* operation queue
outsideManager == <<readerVars, contextVars, resultVars, renderVars, parserVars,
                    interactionVars, confirmVars, serialVars>>

outsideInteractions == <<outsideConfirm, confirmVars>>

vars == <<readerVars, contextVars, harnessVars>>

-----------------------------------------------------------------------------
(* util/strings.ts: characters *)

EOS == "EOS"

Digits == {"0", "1", "2", "3", "4", "5", "6", "7", "8", "9"}

LowerLetters == {"a", "b", "c", "d", "e", "f", "g", "l", "m", "n", "o", "p",
                 "s", "t", "u", "x", "y", "z"}

UpperLetters == {"C", "N"}

Quotes == {"\"", "'"}

Chars == Digits \cup LowerLetters \cup UpperLetters \cup Quotes \cup {" ", "-", "\n"}

IsBase10Digit(c) == c \in Digits

IsCharWhitespace(c) == c \in {" ", "\t", "\n", "\r"}

\* String.prototype.toLowerCase, one character
LowerChar(c) == CASE c = "C" -> "c" [] c = "N" -> "n" [] OTHER -> c

ToLowerCase(s) == [i \in 1..Len(s) |-> LowerChar(s[i])]

\* the predicates handed to StringReader.collect, as the sets they accept
UNTIL_SPACE == Chars \ {" "}
UntilSpaceOrNewline == Chars \ {" ", "\n"}
NumberChars == Digits \cup {".", "_"}
AlphaNumeric == Digits \cup LowerLetters \cup UpperLetters

-----------------------------------------------------------------------------
(* util/strings.ts: StringReader *)

RECURSIVE At(_, _)
At(s, i) ==
    IF i < 0 /\ Len(s) > 0 THEN At(s, Len(s) + i)
    ELSE IF i < 0 \/ i >= Len(s) THEN EOS
    ELSE s[i + 1]

Move(s, i, a) == IF i = -1 \/ i = Len(s) THEN i ELSE i + a

RECURSIVE Collect(_, _, _)
Collect(s, i, pred) ==
    LET c == At(s, i) IN
    IF c = EOS \/ c \notin pred
    THEN [text |-> <<>>, idx |-> i]
    ELSE LET r == Collect(s, Move(s, i, 1), pred)
         IN  [text |-> <<c>> \o r.text, idx |-> r.idx]

\* skipWhitespace: c = this.next() is EOS, and the loop over, when move() does
\* not move
RECURSIVE SkipWhitespace(_, _)
SkipWhitespace(s, i) ==
    IF ~IsCharWhitespace(At(s, i)) \/ Move(s, i, 1) = i THEN i
    ELSE SkipWhitespace(s, Move(s, i, 1))

\* expect(c): the cursor after it, left on the first character that differs
\* (where the ParseError is thrown)
RECURSIVE Expect(_, _, _)
Expect(s, i, c) ==
    IF c = <<>> \/ At(s, i) # Head(c) THEN i
    ELSE Expect(s, Move(s, i, 1), Tail(c))

PushIndex(stack, i) == Append(stack, i)

RestoreIdx(stack) == stack[Len(stack)]

RestoreStack(stack) == SubSeq(stack, 1, Len(stack) - 1)

-----------------------------------------------------------------------------
(* util/strings.ts: ParseError, StringLoc, ParseResult, ParseContext *)

None == <<>>

Some(x) == <<x>>

\* an Error object: its class, its type (the CommandErrorType of a
\* CommandError, the message of any other error) and its StringLoc (start and
\* end inclusive, -1 when it carries none)
ErrorObject(cls, type, start, end) ==
    [cls |-> cls, type |-> type, start |-> start, end |-> end]

ParseError(start, end) == ErrorObject("ParseError", "", start, end)

\* a value: t is its type tag, n its number when it has one
Value(t, n) == [t |-> t, n |-> n]

Undefined == Value("undefined", 0)

\* new ParseResult(value, error, uncaughtError, promise): with no promise
\* argument the constructor sets completed = true
ParseResult(value, error, uncaughtError) ==
    [value |-> value, error |-> error, uncaughtError |-> uncaughtError,
     promise |-> "none", completed |-> TRUE]

completedParse(value) == ParseResult(value, None, None)

failedParse(error) == ParseResult(Undefined, Some(error), None)

\* ParseResult.fromPromise: the result is constructed without a promise (so
\* completed is already true), then the promise is attached to it
fromPromise == [ParseResult(Undefined, None, None) EXCEPT !.promise = "pending"]

\* parseFloat over the characters Parsers.Number collects
RECURSIVE DigitsValue(_, _)
DigitsValue(text, acc) ==
    IF text = <<>> \/ ~IsBase10Digit(Head(text)) THEN acc
    ELSE DigitsValue(Tail(text),
                     acc * 10 + (CHOOSE d \in 0..9 :
                        Head(text) = <<"0", "1", "2", "3", "4", "5", "6", "7", "8", "9">>[d + 1]))

parseFloat(text) ==
    IF text = <<>> \/ ~IsBase10Digit(Head(text))
    THEN Value("NaN", 0)
    ELSE Value("number", DigitsValue(text, 0))

\* a string value
StringValue(text) == [t |-> "string", n |-> 0, text |-> text]

\* Parsers.String at cursor i of s: the cursor after it and the result
ParsersString(s, i) ==
    IF At(s, i) \in Quotes
    THEN LET quote == At(s, i)
             col   == Collect(s, i, Chars \ {quote})
         IN  [idx |-> Move(s, col.idx, 1), res |-> completedParse(StringValue(col.text))]
    ELSE LET col == Collect(s, i, UNTIL_SPACE)
         IN  [idx |-> col.idx, res |-> completedParse(StringValue(col.text))]

\* Parsers.Number
ParsersNumber(s, i) ==
    LET col == Collect(s, i, NumberChars)
    IN  [idx |-> col.idx, res |-> completedParse(parseFloat(col.text))]

\* Parsers.UNIT2MS_MAP: its keys and the milliseconds of each
UnitNames ==
    {<<"m", "s">>, <<"s">>, <<"m">>, <<"h">>, <<"d">>, <<"M">>, <<"y">>}

UNIT2MS_MAP(unit) ==
    CASE unit = <<"m", "s">> -> 1
      [] unit = <<"s">>      -> 1000
      [] unit = <<"m">>      -> 60 * 1000
      [] unit = <<"h">>      -> 60 * 60 * 1000
      [] unit = <<"d">>      -> 24 * 60 * 60 * 1000
      [] unit = <<"M">>      -> 30 * 24 * 60 * 60 * 1000
      [] unit = <<"y">>      -> 365 * 24 * 60 * 60 * 1000

\* Parsers.Duration, the loop over the <number><unit> elements from cursor i
\* on, total being the milliseconds so far
RECURSIVE DurationLoop(_, _, _)
DurationLoop(s, i, total) ==
    IF ~IsBase10Digit(At(s, i))
    THEN [idx |-> i, res |-> completedParse(Value("number", total))]
    ELSE LET num == ParsersNumber(s, i)
             col == Collect(s, num.idx, Chars \ (Digits \cup {" "}))
         IN  IF num.res.value.t = "NaN" \/ num.res.value.n = 0
             THEN [idx |-> num.idx, res |-> completedParse(Value("number", 0))]
             ELSE IF col.text \notin UnitNames
             THEN [idx |-> col.idx, res |-> failedParse(ParseError(num.idx, col.idx))]
             ELSE DurationLoop(s, col.idx,
                               total + num.res.value.n * UNIT2MS_MAP(col.text))

ParsersDuration(s, i) == DurationLoop(s, i, 0)

\* Number.toString of a natural number, which stringify comes to
RECURSIVE NumberToString(_)
NumberToString(n) ==
    LET digit == <<"0", "1", "2", "3", "4", "5", "6", "7", "8", "9">>[(n % 10) + 1]
    IN  IF n < 10 THEN <<digit>> ELSE Append(NumberToString(n \div 10), digit)

\* Parsers.Duration.emit: the default emitter of newSyncParser
DurationEmit(value) == NumberToString(value.n)

\* the outcomes of one run of an asynchronous argument parser
\* (newAsyncParser; Parsers.DiscordUser is one): a completed result, a failed
\* parse, an exception, or a promise
ParseModes == {"sync", "error", "throw", "pending"}

\* ParseContext.parse(parser) at cursor i: the cursor after it and the result.
\* A ParseError thrown or returned becomes a failed parse, any other
\* exception an uncaughtError result.
ContextParse(i, type, mode) ==
    IF type = "Number" THEN ParsersNumber(str, i)
    ELSE LET col == Collect(str, i, AlphaNumeric)
         IN  [idx |-> col.idx,
              res |-> CASE mode = "sync"  -> completedParse(Value("user", 0))
                        [] mode = "error" -> failedParse(ParseError(i, col.idx))
                        [] mode = "throw" ->
                             ParseResult(Undefined, None,
                                         Some(ErrorObject("Error", "parser", -1, -1)))
                        [] OTHER          -> fromPromise]

-----------------------------------------------------------------------------
(* services/command-service.ts: CommandResult hierarchy *)

CommandResult(kind, msg, token, assertion, errors, trace, results) ==
    [kind |-> kind, msg |-> msg, token |-> token, assertion |-> assertion,
     errors |-> errors, trace |-> trace, results |-> results]

NoResult == CommandResult("None", "", <<>>, 0, <<>>, FALSE, <<>>)

noExecutor == CommandResult("NoExecutor", "", <<>>, 0, <<>>, FALSE, <<>>)

SuccessResult == CommandResult("Success", "", <<>>, 0, <<>>, FALSE, <<>>)

\* FailResult(ctx, msg + "`" + token + "`")
FailResult(msg, token) == CommandResult("Fail", msg, token, 0, <<>>, FALSE, <<>>)

\* AssertionFailedResult(ctx, result.message, a): the message of assertion a
AssertionFailedResult(a) ==
    CommandResult("AssertionFailed", "AssertionMessage", <<>>, a, <<>>, FALSE, <<>>)

ParseErrorsResult(error) ==
    CommandResult("ParseErrors", "Parse Error: ", <<>>, 0, <<error>>, FALSE, <<>>)

UncaughtErrorResult(error, msg) ==
    CommandResult("UncaughtError", msg, <<>>, 0, <<error>>, TRUE, <<>>)

\* forEach(r => this.errors.push(...r.errors)), from errors on
RECURSIVE ConcatErrors(_, _)
ConcatErrors(results, errors) ==
    IF results = <<>> THEN errors
    ELSE ConcatErrors(Tail(results), errors \o Head(results).errors)

\* new MutliFailResult(ctx, results): _errors starts empty and receives the
\* errors of every result that has some
MutliFailResult(results) ==
    CommandResult("MultiFail", "Multiple Errors Occurred", <<>>, 0,
                  ConcatErrors(SelectSeq(results, LAMBDA r : Len(r.errors) > 0), <<>>),
                  FALSE, results)

\* unwrap that hands back the sub-results of a MutliFailResult as they are
unwrap_Shallow(r) == IF r.kind = "MultiFail" THEN r.results ELSE <<r>>

\* CommandResult.unwrap / MutliFailResult.unwrap
RECURSIVE unwrap(_)
RECURSIVE UnwrapAll(_)
unwrap(r) == IF r.kind = "MultiFail" THEN UnwrapAll(r.results) ELSE <<r>>
UnwrapAll(rs) == IF rs = <<>> THEN <<>> ELSE unwrap(Head(rs)) \o UnwrapAll(Tail(rs))

toErrorResult(res) ==
    IF res.error # None THEN Some(ParseErrorsResult(res.error[1]))
    ELSE IF res.uncaughtError # None
    THEN Some(UncaughtErrorResult(res.uncaughtError[1], "Uncaught error while parsing"))
    ELSE None

-----------------------------------------------------------------------------
(* services/command-service.ts: the command tree the dispatcher is run on.    *)
(*   cmd [-a] [-b <number>] ( get [-us <user>] | ls | <x:user> <z:user> )      *)

NoNode == 0

Nodes == 1..5

CmdNode == 1

NodeName(n) ==
    CASE n = 1 -> <<"c", "m", "d">>
      [] n = 2 -> <<"g", "e", "t">>
      [] n = 3 -> <<"l", "s">>
      [] n = 4 -> <<"x">>
      [] OTHER -> <<"z">>

\* CommandNode.literal
NodeLiteral(n) == n \in {1, 2, 3}

\* CommandNode.argumentType
NodeArgumentType(n) == "User"

\* CommandNode.children; the root's children are registered in any order
NodeChildren(n) ==
    CASE n = 1 -> order
      [] n = 4 -> <<5>>
      [] OTHER -> <<>>

\* CommandNode.flags
NodeFlags(n) ==
    CASE n = 1 -> <<"a", "b">>
      [] n = 2 -> <<"us">>
      [] OTHER -> <<>>

\* CommandNode.assertions
NodeAssertions(n) ==
    CASE n = 1 -> <<1, 2>>
      [] n = 5 -> <<3>>
      [] OTHER -> <<>>

\* whether CommandNode.executor is set (through CommandBuilder.executes)
NodeHasExecutor(n) == n \in {2, 4, 5}

Flags == {"a", "b", "us"}

NoFlag == "none"

\* CommandFlag.name
FlagName(f) == IF f = "us" THEN <<"u", "s">> ELSE <<f>>

\* CommandFlag.aliases
FlagAliases(f) == IF f = "a" THEN {<<"a", "l">>} ELSE {}

\* CommandFlag.isSwitch
FlagIsSwitch(f) == f = "a"

\* CommandFlag.type
FlagType(f) == IF f = "b" THEN "Number" ELSE "User"

FlagKeys == UNION {{FlagName(f)} \cup FlagAliases(f) : f \in Flags}

ArgNames == {NodeName(n) : n \in Nodes \ {1, 2, 3}}

\* CommandDispatcher.commandMap after register(cmd), with the empty prefix
commandMap == [k \in {NodeName(CmdNode)} |-> CmdNode]

-----------------------------------------------------------------------------
(* services/command-service.ts: CommandContext *)

\* the part of the dispatch state one loop iteration reads and writes;
\* ret is the result an early return hands back, thrown the exception that
\* escapes to the catch of dispatch
Ctx ==
    [idx |-> idx, ist |-> ist, registeredFlags |-> registeredFlags,
     flagResults |-> flagResults, argResults |-> argResults,
     awaitableResults |-> awaitableResults, heap |-> heap,
     executor |-> executor, next |-> NoNode, nodeStack |-> nodeStack,
     tested |-> tested, selections |-> selections, parseLog |-> parseLog,
     ret |-> None, thrown |-> None]

Halted(c) == c.ret # None \/ c.thrown # None

\* CommandContext.argResult(name, v)
argResult(c, name, v) ==
    LET ref == Len(c.heap) + 1 IN
    [c EXCEPT !.heap = Append(@, v),
              !.argResults[name] = ref,
              !.awaitableResults = IF v.promise # "none" THEN Append(@, ref) ELSE @]

\* CommandContext.flagResult(name, v)
flagResult(c, name, v) ==
    LET ref == Len(c.heap) + 1 IN
    [c EXCEPT !.heap = Append(@, v),
              !.flagResults[name] = ref,
              !.awaitableResults = IF v.promise # "none" THEN Append(@, ref) ELSE @]

-----------------------------------------------------------------------------
(* services/command-service.ts: CommandDispatcher.dispatch, one loop iteration *)

AssertionOutcomes == {"pass", "fail", "throw"}

\* TestAssertions with the return at the first failed assertion left out: every
\* assertion is tested and the last failure is the one reported
RECURSIVE TestAssertions_NoStop(_, _, _, _)
TestAssertions_NoStop(c, n, i, ao) ==
    IF i > Len(NodeAssertions(n)) THEN c
    ELSE LET a  == NodeAssertions(n)[i]
             c1 == [c EXCEPT !.tested =
                        Append(@, [assertion |-> a, node |-> n, idx |-> c.idx,
                                   outcome |-> ao[a]])]
         IN  CASE ao[a] = "fail"  ->
                    TestAssertions_NoStop(
                        [c1 EXCEPT !.ret = Some(AssertionFailedResult(a))], n, i + 1, ao)
               [] ao[a] = "throw" ->
                    [c1 EXCEPT !.thrown = Some(ErrorObject("Error", "assertion", -1, -1))]
               [] OTHER           -> TestAssertions_NoStop(c1, n, i + 1, ao)

\* for (let a of currentNode.assertions): test each in order, return at the
\* first failed one; an assertion that throws leaves through the catch
RECURSIVE TestAssertions(_, _, _, _)
TestAssertions(c, n, i, ao) ==
    IF i > Len(NodeAssertions(n)) THEN c
    ELSE LET a  == NodeAssertions(n)[i]
             c1 == [c EXCEPT !.tested =
                        Append(@, [assertion |-> a, node |-> n, idx |-> c.idx,
                                   outcome |-> ao[a]])]
         IN  CASE ao[a] = "fail"  -> [c1 EXCEPT !.ret = Some(AssertionFailedResult(a))]
               [] ao[a] = "throw" ->
                    [c1 EXCEPT !.thrown = Some(ErrorObject("Error", "assertion", -1, -1))]
               [] OTHER           -> TestAssertions(c1, n, i + 1, ao)

\* the ctx.parse call made for the argument or flag called name, at the cursor
\* of c, giving p
LogParse(c, kind, name, p) ==
    [c EXCEPT !.idx = p.idx,
              !.parseLog = Append(@, [kind |-> kind, name |-> name, idx |-> c.idx,
                                      res |-> p.res])]

\* ParseNode that records a failed result like any other and goes on
ParseNode_RecordFailed(c, n, pm) ==
    IF Halted(c) THEN c
    ELSE IF NodeLiteral(n)
    THEN [c EXCEPT !.idx = Collect(str, c.idx, UNTIL_SPACE).idx]
    ELSE LET p == ContextParse(c.idx, NodeArgumentType(n), pm)
         IN  argResult(LogParse(c, "argument", NodeName(n), p), NodeName(n), p.res)

\* parse current node: skip over the literal, or parse and record the argument
ParseNode(c, n, pm) ==
    IF Halted(c) THEN c
    ELSE IF NodeLiteral(n)
    THEN [c EXCEPT !.idx = Collect(str, c.idx, UNTIL_SPACE).idx]
    ELSE LET p   == ContextParse(c.idx, NodeArgumentType(n), pm)
             err == toErrorResult(p.res)
             c1  == LogParse(c, "argument", NodeName(n), p)
         IN  IF err # None
             THEN [c1 EXCEPT !.ret = err]
             ELSE argResult(c1, NodeName(n), p.res)

\* register set flags: by name and by every alias
RegisterFlags(c, n) ==
    IF Halted(c) THEN c
    ELSE LET new == {NodeFlags(n)[i] : i \in 1..Len(NodeFlags(n))}
             keys(f) == {FlagName(f)} \cup FlagAliases(f)
         IN  [c EXCEPT !.registeredFlags =
                 [k \in FlagKeys |->
                     IF \E f \in new : k \in keys(f)
                     THEN CHOOSE f \in new : k \in keys(f)
                     ELSE @[k]]]

\* while (reader.current() == '-'): one flag per iteration
RECURSIVE FlagLoop(_, _)
FlagLoop(c, fm) ==
    IF Halted(c) \/ At(str, c.idx) # "-" THEN c
    ELSE LET ci   == Move(str, c.idx, 1)
             col  == Collect(str, ci, UNTIL_SPACE)
             flag == IF col.text \in FlagKeys
                     THEN c.registeredFlags[col.text] ELSE NoFlag
         IN  IF flag = NoFlag
             THEN [c EXCEPT !.idx = col.idx,
                            !.thrown = Some(ErrorObject("CommandError", "UNKNOWN_FLAG",
                                                        ci, col.idx - 1))]
             ELSE IF FlagIsSwitch(flag)
             THEN FlagLoop(flagResult([c EXCEPT !.idx = col.idx], flag,
                                      completedParse(Value("boolean", 1))), fm)
             ELSE LET at  == Move(str, col.idx, 1)
                      p   == ContextParse(at, FlagType(flag), fm)
                      err == toErrorResult(p.res)
                      c1  == LogParse([c EXCEPT !.idx = at], "flag", FlagName(flag), p)
                  IN  IF err # None
                      THEN [c1 EXCEPT !.ret = err]
                      ELSE FlagLoop(flagResult(c1, flag, p.res), fm)

\* try and parse flags
ParseFlags(c, fm) ==
    IF Halted(c) THEN c
    ELSE FlagLoop([c EXCEPT !.idx = SkipWhitespace(str, @)], fm)

\* CaptureExecutor that keeps the executor captured first
CaptureExecutor_KeepFirst(c, n) ==
    IF Halted(c) \/ ~NodeHasExecutor(n) \/ c.executor # NoNode THEN c
    ELSE [c EXCEPT !.executor = n]

\* check for executor
CaptureExecutor(c, n) ==
    IF Halted(c) \/ ~NodeHasExecutor(n) THEN c ELSE [c EXCEPT !.executor = n]

\* FindFrom that restores only after a literal that matched
RECURSIVE FindFrom_NoRestore(_, _, _, _)
FindFrom_NoRestore(c, children, i, it) ==
    IF i > Len(children) THEN [c EXCEPT !.next = it]
    ELSE LET node == children[i] IN
         IF NodeLiteral(node)
         THEN LET pushed == PushIndex(c.ist, c.idx)
                  col    == Collect(str, c.idx, UNTIL_SPACE)
              IN  IF col.text = NodeName(node)
                  THEN [c EXCEPT !.idx = RestoreIdx(pushed),
                                 !.ist = RestoreStack(pushed),
                                 !.next = node]
                  ELSE FindFrom_NoRestore([c EXCEPT !.idx = col.idx, !.ist = pushed],
                                          children, i + 1, it)
         ELSE FindFrom_NoRestore(c, children, i + 1,
                                 IF it = NoNode \/ ~NodeLiteral(it) THEN node ELSE it)

\* findNext, the loop over the children from child i on; it is the selection
\* so far. A literal child is tested between pushIndex and restore.
RECURSIVE FindFrom(_, _, _, _)
FindFrom(c, children, i, it) ==
    IF i > Len(children) THEN [c EXCEPT !.next = it]
    ELSE LET node == children[i] IN
         IF NodeLiteral(node)
         THEN LET pushed == PushIndex(c.ist, c.idx)
                  col    == Collect(str, c.idx, UNTIL_SPACE)
                  c1     == [c EXCEPT !.idx = RestoreIdx(pushed),
                                      !.ist = RestoreStack(pushed)]
              IN  IF col.text = NodeName(node)
                  THEN [c1 EXCEPT !.next = node]
                  ELSE FindFrom(c1, children, i + 1, it)
         ELSE FindFrom(c, children, i + 1,
                       IF it = NoNode \/ ~NodeLiteral(it) THEN node ELSE it)

\* CommandDispatcher.findNext
findNext(c, n) ==
    LET f == FindFrom(c, NodeChildren(n), 1, NoNode)
    IN  [f EXCEPT !.idx = SkipWhitespace(str, @),
                  !.selections = Append(@, [node |-> n, idx |-> c.idx, chosen |-> f.next])]

\* SelectNext that fails only when no executor was captured
SelectNext_KeepGoing(c, n) ==
    IF Halted(c) THEN c
    ELSE LET f == findNext(c, n) IN
         IF f.next = NoNode /\ At(str, f.idx) # EOS /\ f.executor = NoNode
         THEN LET col == Collect(str, f.idx, UNTIL_SPACE)
              IN  [f EXCEPT !.idx = col.idx,
                            !.ret = Some(FailResult("No subcommand by name", col.text))]
         ELSE [f EXCEPT !.nodeStack = Append(@, f.next)]

\* SelectNext that names the rest of the line instead of the next token
SelectNext_RestOfLine(c, n) ==
    IF Halted(c) THEN c
    ELSE LET f == findNext(c, n) IN
         IF f.next = NoNode /\ At(str, f.idx) # EOS
         THEN LET col == Collect(str, f.idx, Chars)
              IN  [f EXCEPT !.idx = col.idx,
                            !.ret = Some(FailResult("No subcommand by name", col.text))]
         ELSE [f EXCEPT !.nodeStack = Append(@, f.next)]

\* select next node: fail when none is selected and input remains
SelectNext(c, n) ==
    IF Halted(c) THEN c
    ELSE LET f == findNext(c, n) IN
         IF f.next = NoNode /\ At(str, f.idx) # EOS
         THEN LET col == Collect(str, f.idx, UNTIL_SPACE)
              IN  [f EXCEPT !.idx = col.idx,
                            !.ret = Some(FailResult("No subcommand by name", col.text))]
         ELSE [f EXCEPT !.nodeStack = Append(@, f.next)]

\* the body of while (currentNode), for node n
LoopBody(c, n, ao, pm, fm) ==
    SelectNext(
      CaptureExecutor(
        ParseFlags(
          RegisterFlags(
            ParseNode(
              TestAssertions(c, n, 1, ao), n, pm), n), fm), n), n)

-----------------------------------------------------------------------------
(* the promises of one dispatch *)

Resolved(result) == [state |-> "resolved", value |-> result]

Pending == [state |-> "pending", value |-> NoResult]

Rejected == [state |-> "rejected", value |-> NoResult]

NotReturned == [state |-> "none", value |-> NoResult]

\* a join that is fulfilled as soon as one of the promises is (Promise.any)
PromiseAll_Any(h, refs) ==
    IF refs = <<>> \/ \E i \in 1..Len(refs) : h[refs[i]].promise = "fulfilled"
    THEN "fulfilled"
    ELSE IF \E i \in 1..Len(refs) : h[refs[i]].promise = "rejected" THEN "rejected"
    ELSE "pending"

\* Promise.all over ctx.awaitableResults: rejected as soon as one of them is,
\* fulfilled once all of them are
PromiseAll(h, refs) ==
    IF \E i \in 1..Len(refs) : h[refs[i]].promise = "rejected" THEN "rejected"
    ELSE IF \A i \in 1..Len(refs) : h[refs[i]].promise = "fulfilled" THEN "fulfilled"
    ELSE "pending"

\* results.filter(r => r.error), over the results Promise.all delivers
FailedResults(results) == SelectSeq(results, LAMBDA r : r.error # None)

\* CommandContext.awaitPromises, the continuation of Promise.all: the
\* MutliFailResult of the failed results, or None (result: undefined)
awaitPromises(h, refs) ==
    LET results == [i \in 1..Len(refs) |-> h[refs[i]]]
        failed  == FailedResults(results)
    IN  IF Len(failed) > 0
        THEN Some(MutliFailResult([i \in 1..Len(failed) |-> toErrorResult(failed[i])[1]]))
        ELSE None

\* what the executor handed to CommandBuilder.executes does: it returns a
\* result, throws a FailError or another error, or (an async executor, or one
\* returning a promise) hands back a promise that rejects with such an error
ExecutorBehaviours == {"success", "throwFail", "throw", "rejectFail", "reject"}

\* the error object a behaviour of the executor raises
ExecutorError(behaviour) ==
    IF behaviour \in {"throwFail", "rejectFail"}
    THEN ErrorObject("FailError", "FailError.message", -1, -1)
    ELSE ErrorObject("Error", "executor", -1, -1)

\* the promise CommandBuilder.executes builds around the executor: the catch
\* covers what executor(ctx) throws; resolve() of a promise adopts its state
executes(behaviour) ==
    CASE behaviour = "success"   -> Resolved(SuccessResult)
      [] behaviour = "throwFail" ->
           Resolved(FailResult(ExecutorError(behaviour).type, <<>>))
      [] behaviour = "throw"     ->
           Resolved(UncaughtErrorResult(ExecutorError(behaviour), "Error in executor: "))
      [] OTHER                   -> Rejected

\* the outcomes of a pending parse result
SettleOutcomes == {"value", "error", "uncaught", "reject"}

\* the continuation ParseResult.fromPromise chains on the parser's promise
SettleResult(r, outcome) ==
    CASE outcome = "value"    -> [r EXCEPT !.value = Value("user", 0), !.promise = "fulfilled"]
      [] outcome = "error"    -> [r EXCEPT !.error = Some(ParseError(-1, -1)),
                                           !.promise = "fulfilled"]
      [] outcome = "uncaught" ->
           [r EXCEPT !.uncaughtError = Some(ErrorObject("Error", "parser", -1, -1)),
                     !.promise = "fulfilled"]
      [] OTHER                -> [r EXCEPT !.promise = "rejected"]

-----------------------------------------------------------------------------
(* the input lines and the trees of the runs *)

Join2(a, b) == a \o <<" ">> \o b

RECURSIVE JoinTokens(_)
JoinTokens(ts) ==
    IF Len(ts) = 1 THEN ts[1] ELSE Join2(ts[1], JoinTokens(Tail(ts)))

Vocabulary ==
    { <<"g", "e", "t">>, <<"5">>, <<"-", "a">>, <<"-", "b">>, <<"-", "u", "s">> }

TokensUpTo(n) == UNION {[1..k -> Vocabulary] : k \in 0..n}

InputTokens ==
    {<<NodeName(CmdNode)>> \o r : r \in TokensUpTo(MaxTokens - 1)}
    \cup {<<h>> \o r : h \in {<<"C", "m", "d">>, <<"N", "o", "p">>}, r \in TokensUpTo(1)}

Inputs == {JoinTokens(ts) : ts \in InputTokens}

Orders == {o \in [1..3 -> {2, 3, 4}] : \A i, j \in 1..3 : i # j => o[i] # o[j]}

-----------------------------------------------------------------------------
(* the dispatch of one input line *)

\* no command line is being dispatched
ContextIdle ==
    /\ order = <<2, 3, 4>>
    /\ pc = "idle"
    /\ command = NoNode
    /\ currentNode = NoNode
    /\ executor = NoNode
    /\ nodeStack = <<>>
    /\ registeredFlags = [k \in FlagKeys |-> NoFlag]
    /\ flagResults = [f \in Flags |-> 0]
    /\ argResults = [a \in ArgNames |-> 0]
    /\ awaitableResults = <<>>
    /\ heap = <<>>
    /\ returned = NotReturned
    /\ tested = <<>>
    /\ entered = <<>>
    /\ selections = <<>>
    /\ invoked = <<>>
    /\ settleLog = <<>>
    /\ parseLog = <<>>

\* no reader is in use
ReaderIdle == str = <<>> /\ idx = 0 /\ ist = <<>>

\* no result is under construction
ResultsIdle == subResults = <<>> /\ multi = NoResult /\ unwrapped = <<>>

\* no result is being rendered
RenderIdle == rendered = [kind |-> "None", message |-> <<>>, desc |-> None]

\* no parser is being exercised
ParsersIdle == parsed = <<>>

\* no interaction was built
InteractionsIdle ==
    /\ objects = <<>>
    /\ interactions = <<>>
    /\ interactionsByName = <<>>
    /\ listeners = <<>>
    /\ callLog = <<>>
    /\ thrown = <<>>

\* no confirmation message was sent
ConfirmIdle == confirm = <<>>

\* nothing is being saved or loaded
SerialIdle ==
    /\ source = <<>>
    /\ persisted = <<>>
    /\ serialOut = <<>>

\* no event bus, permission tree, service manager or operation queue is in use
BusIdle == busListeners = <<>> /\ handled = <<>>

PermissionsIdle == baseNode = <<>> /\ lastSet = <<>> /\ checkLog = <<>>

ServicesIdle ==
    /\ servicesList = <<>>
    /\ dependencies = <<>>
    /\ onLoadThrows = {}
    /\ loadedFlags = <<>>
    /\ injectedProps = <<>>
    /\ onLoadLog = <<>>

QueueIdle == operations = <<>> /\ opQueued = <<>> /\ promises = <<>> /\ opCalls = <<>>

ManagerIdle == BusIdle /\ PermissionsIdle /\ ServicesIdle /\ QueueIdle

Init ==
    /\ ResultsIdle
    /\ RenderIdle
    /\ ParsersIdle
    /\ InteractionsIdle
    /\ ConfirmIdle
    /\ SerialIdle
    /\ ManagerIdle
    /\ str \in Inputs
    /\ order \in Orders
    /\ idx = 0
    /\ ist = <<>>
    /\ pc = "start"
    /\ command = NoNode
    /\ currentNode = NoNode
    /\ executor = NoNode
    /\ nodeStack = <<>>
    /\ registeredFlags = [k \in FlagKeys |-> NoFlag]
    /\ flagResults = [f \in Flags |-> 0]
    /\ argResults = [a \in ArgNames |-> 0]
    /\ awaitableResults = <<>>
    /\ heap = <<>>
    /\ returned = NotReturned
    /\ tested = <<>>
    /\ entered = <<>>
    /\ selections = <<>>
    /\ invoked = <<>>
    /\ settleLog = <<>>
    /\ parseLog = <<>>

\* FindCommand without toLowerCase
FindCommand_NoLower(s, i, stack) ==
    LET pushed == PushIndex(stack, i)
        col    == Collect(s, i, UntilSpaceOrNewline)
    IN  [name |-> col.text, idx |-> RestoreIdx(pushed), ist |-> RestoreStack(pushed)]

\* find command: the leading token, peeked between pushIndex and restore
FindCommand(s, i, stack) ==
    LET pushed == PushIndex(stack, i)
        col    == Collect(s, i, UntilSpaceOrNewline)
    IN  [name |-> ToLowerCase(col.text), idx |-> RestoreIdx(pushed),
         ist |-> RestoreStack(pushed)]

ResolveCommand ==
    /\ UNCHANGED harnessVars
    /\ pc = "start"
    /\ LET f == FindCommand(str, idx, ist)
           found == f.name \in DOMAIN commandMap
       IN  /\ idx' = f.idx
           /\ ist' = f.ist
           /\ command' = IF found THEN commandMap[f.name] ELSE NoNode
           /\ IF found
              THEN /\ currentNode' = commandMap[f.name]
                   /\ pc' = "loop"
                   /\ returned' = returned
              ELSE /\ currentNode' = currentNode
                   /\ pc' = "done"
                   /\ returned' = Resolved(FailResult("No command by name", f.name))
    /\ UNCHANGED <<str, order, executor, nodeStack, registeredFlags, flagResults,
                   argResults, awaitableResults, heap, tested, entered, selections,
                   invoked, settleLog, parseLog>>

\* the parser outcomes this iteration can meet
NodeParseModes(n) ==
    IF ~NodeLiteral(n) /\ NodeArgumentType(n) = "User" THEN ParseModes ELSE {"sync"}

FlagParseModes(n) ==
    IF \E f \in Flags : /\ ~FlagIsSwitch(f) /\ FlagType(f) = "User"
                        /\ \/ registeredFlags[FlagName(f)] = f
                           \/ \E i \in 1..Len(NodeFlags(n)) : NodeFlags(n)[i] = f
    THEN ParseModes ELSE {"sync"}

LoopIteration ==
    /\ UNCHANGED harnessVars
    /\ pc = "loop"
    /\ currentNode # NoNode
    /\ At(str, idx) # EOS
    /\ \E ao \in [{NodeAssertions(currentNode)[i] : i \in 1..Len(NodeAssertions(currentNode))}
                    -> AssertionOutcomes],
          pm \in NodeParseModes(currentNode),
          fm \in FlagParseModes(currentNode) :
         LET c == LoopBody(Ctx, currentNode, ao, pm, fm) IN
         /\ idx' = c.idx
         /\ ist' = c.ist
         /\ registeredFlags' = c.registeredFlags
         /\ flagResults' = c.flagResults
         /\ argResults' = c.argResults
         /\ awaitableResults' = c.awaitableResults
         /\ heap' = c.heap
         /\ executor' = c.executor
         /\ nodeStack' = c.nodeStack
         /\ tested' = c.tested
         /\ selections' = c.selections
         /\ parseLog' = c.parseLog
         /\ entered' = Append(entered, [node |-> currentNode, idx |-> idx])
         /\ IF c.thrown # None
            THEN /\ returned' = Resolved(UncaughtErrorResult(c.thrown[1], "System Error: "))
                 /\ pc' = "done"
                 /\ currentNode' = currentNode
            ELSE IF c.ret # None
            THEN /\ returned' = Resolved(c.ret[1])
                 /\ pc' = "done"
                 /\ currentNode' = currentNode
            ELSE /\ returned' = returned
                 /\ pc' = "loop"
                 /\ currentNode' = c.next
    /\ UNCHANGED <<str, order, command, invoked, settleLog>>

\* the loop is left: await the pending results when an executor was captured
EndTraversal ==
    /\ UNCHANGED harnessVars
    /\ pc = "loop"
    /\ currentNode = NoNode \/ At(str, idx) = EOS
    /\ IF executor # NoNode
       THEN pc' = "await" /\ returned' = Pending
       ELSE pc' = "done" /\ returned' = Resolved(noExecutor)
    /\ UNCHANGED <<str, idx, ist, order, command, currentNode, executor, nodeStack,
                   registeredFlags, flagResults, argResults, awaitableResults, heap,
                   tested, entered, selections, invoked, settleLog, parseLog>>

\* a pending parse result settles
Settle ==
    /\ UNCHANGED harnessVars
    /\ pc = "await"
    /\ \E h \in 1..Len(heap), outcome \in SettleOutcomes :
         /\ heap[h].promise = "pending"
         /\ heap' = [heap EXCEPT ![h] = SettleResult(@, outcome)]
         /\ settleLog' = Append(settleLog, h)
    /\ UNCHANGED <<str, idx, ist, order, pc, command, currentNode, executor, nodeStack,
                   registeredFlags, flagResults, argResults, awaitableResults,
                   returned, tested, entered, selections, invoked, parseLog>>

\* CommandNode.defaultSupplier: node 5 is built with .optional("d"), where
\* optional() stores '_ => defSupplier' after assigning that very function to
\* defSupplier, a supplier that returns itself; the other nodes have none
NodeDefaultSupplier(n) == IF n = 5 THEN "returnsItself" ELSE "undefined"

\* CommandContext.registeredArgs: new Map(), which nothing writes to
registeredArgs == [name \in {} |-> NoNode]

\* Optional.present(value), and the empty Optional of
\* commandArgumentRequiredOptional, with the result its require() ends the
\* executor with
OptionalPresent(value) == [present |-> TRUE, value |-> value, absent |-> None]

OptionalRequired(name) ==
    [present |-> FALSE, value |-> Undefined,
     absent |-> Some(FailResult("is a required argument", name))]

\* CommandContext.arg(name) on the argument results and parse results given
ContextArg(results, parses, name) ==
    IF results[name] # 0
    THEN OptionalPresent(parses[results[name]].value)
    ELSE IF name \notin DOMAIN registeredArgs
    THEN OptionalRequired(name)
    ELSE IF NodeDefaultSupplier(registeredArgs[name]) = "undefined"
    THEN OptionalRequired(name)
    ELSE OptionalPresent(Value("function", 0))

\* ctx.awaitPromises().then(res => res.result ? res.result : executor(res.context))
RunExecutor ==
    /\ UNCHANGED harnessVars
    /\ pc = "await"
    /\ PromiseAll(heap, awaitableResults) # "pending"
    /\ IF PromiseAll(heap, awaitableResults) = "rejected"
       THEN returned' = Rejected /\ invoked' = invoked
       ELSE LET res == awaitPromises(heap, awaitableResults) IN
            IF res # None
            THEN returned' = Resolved(res[1]) /\ invoked' = invoked
            ELSE \E behaviour \in ExecutorBehaviours :
                   /\ returned' = executes(behaviour)
                   /\ invoked' = Append(invoked,
                        [node |-> executor, behaviour |-> behaviour,
                         args |-> [a \in ArgNames |-> ContextArg(argResults, heap, a)],
                         pending |-> Cardinality({h \in 1..Len(heap) :
                                                    heap[h].promise = "pending"}),
                         completed |-> \A h \in 1..Len(heap) : heap[h].completed])
    /\ pc' = "done"
    /\ UNCHANGED <<str, idx, ist, order, command, currentNode, executor, nodeStack,
                   registeredFlags, flagResults, argResults, awaitableResults, heap,
                   tested, entered, selections, settleLog, parseLog>>

Next == ResolveCommand \/ LoopIteration \/ EndTraversal \/ Settle \/ RunExecutor

Spec == Init /\ [][Next]_vars

-----------------------------------------------------------------------------
(* services/command-service.ts: MutliFailResult and unwrap, on lists of      *)
(* fail-like results                                                         *)

SeqsUpTo(S, n) == UNION {[1..k -> S] : k \in 0..n}

\* the results that are not MutliFailResults
FailLeaves ==
    { FailResult("FailError.message", <<>>),
      ParseErrorsResult(ParseError(0, 1)),
      UncaughtErrorResult(ErrorObject("Error", "executor", -1, -1), "Error in executor: ") }

\* MutliFailResults of such results
NestedResults == {MutliFailResult(l) : l \in SeqsUpTo(FailLeaves, MaxResults)}

InitResults ==
    /\ ReaderIdle
    /\ ContextIdle
    /\ RenderIdle
    /\ ParsersIdle
    /\ InteractionsIdle
    /\ ConfirmIdle
    /\ SerialIdle
    /\ ManagerIdle
    /\ subResults \in SeqsUpTo(FailLeaves \cup NestedResults, MaxResults)
    /\ multi = NoResult
    /\ unwrapped = <<>>

\* new MutliFailResult(ctx, subResults)
Construct ==
    /\ multi = NoResult
    /\ multi' = MutliFailResult(subResults)
    /\ UNCHANGED <<outsideResults, subResults, unwrapped>>

\* multi.unwrap()
Unwrap ==
    /\ multi # NoResult
    /\ unwrapped' = <<[of |-> multi, got |-> unwrap(multi)]>>
    /\ UNCHANGED <<outsideResults, subResults, multi>>

\* unwrap() of one of the results the MutliFailResult was built from
UnwrapSub ==
    /\ multi # NoResult
    /\ \E i \in 1..Len(subResults) :
         unwrapped' = <<[of |-> subResults[i], got |-> unwrap(subResults[i])]>>
    /\ UNCHANGED <<outsideResults, subResults, multi>>

NextResults == Construct \/ Unwrap \/ UnwrapSub

SpecResults == InitResults /\ [][NextResults]_vars

-----------------------------------------------------------------------------
(* util/strings.ts: a StringReader driven by any sequence of its operations  *)

ReaderChars == {"a", " "}

InitReader ==
    /\ ContextIdle
    /\ ResultsIdle
    /\ RenderIdle
    /\ ParsersIdle
    /\ InteractionsIdle
    /\ ConfirmIdle
    /\ SerialIdle
    /\ ManagerIdle
    /\ str \in SeqsUpTo(ReaderChars, MaxReaderLen)
    /\ idx = 0
    /\ ist = <<>>

\* the cursors the run follows: MaxStep beyond either end of the string
Followed(i) == i >= 0 - MaxStep /\ i <= Len(str) + MaxStep

\* next(n)
ReaderNext ==
    /\ \E n \in 1..MaxStep :
         /\ Followed(Move(str, idx, n))
         /\ idx' = Move(str, idx, n)
    /\ UNCHANGED <<str, ist, contextVars, harnessVars>>

\* back(n)
ReaderBack ==
    /\ \E n \in 1..MaxStep :
         /\ Followed(Move(str, idx, 0 - n))
         /\ idx' = Move(str, idx, 0 - n)
    /\ UNCHANGED <<str, ist, contextVars, harnessVars>>

\* collect(pred), run from cursors inside the string (from a negative cursor
\* its loop need not end)
ReaderCollect ==
    /\ idx >= 0
    /\ \E pred \in {ReaderChars, UNTIL_SPACE} : idx' = Collect(str, idx, pred).idx
    /\ UNCHANGED <<str, ist, contextVars, harnessVars>>

\* expect(c)
ReaderExpect ==
    /\ \E c \in SeqsUpTo(ReaderChars, MaxStep) : idx' = Expect(str, idx, c)
    /\ UNCHANGED <<str, ist, contextVars, harnessVars>>

\* skipWhitespace()
ReaderSkipWhitespace ==
    /\ idx' = SkipWhitespace(str, idx)
    /\ UNCHANGED <<str, ist, contextVars, harnessVars>>

\* pushIndex()
ReaderPushIndex ==
    /\ Len(ist) < MaxStack
    /\ ist' = PushIndex(ist, idx)
    /\ UNCHANGED <<str, idx, contextVars, harnessVars>>

\* restore(), after a pushIndex()
ReaderRestore ==
    /\ ist # <<>>
    /\ idx' = RestoreIdx(ist)
    /\ ist' = RestoreStack(ist)
    /\ UNCHANGED <<str, contextVars, harnessVars>>

NextReader ==
    \/ ReaderNext
    \/ ReaderBack
    \/ ReaderCollect
    \/ ReaderExpect
    \/ ReaderSkipWhitespace
    \/ ReaderPushIndex
    \/ ReaderRestore

SpecReader == InitReader /\ [][NextReader]_vars

-----------------------------------------------------------------------------
(* util/strings.ts: Parsers.String and Parsers.Duration applied to strings   *)

ParserChars == Quotes \cup {"a", " ", "1", "m", "s"}

NoParse == ParseResult(Undefined, None, None)

\* one call on a parser: parse of input from cursor at, leaving the cursor at
\* idx and returning res, or emit returning text
ParserCall(op, parser, input, at, i, res, text) ==
    [op |-> op, parser |-> parser, input |-> input, at |-> at, idx |-> i,
     res |-> res, text |-> text]

\* the last call made
LastOp == IF parsed = <<>> THEN "none" ELSE parsed[Len(parsed)].op

InitParsers ==
    /\ ContextIdle
    /\ ResultsIdle
    /\ RenderIdle
    /\ str \in SeqsUpTo(ParserChars, MaxParserLen)
    /\ idx = 0
    /\ ist = <<>>
    /\ parsed = <<>>
    /\ InteractionsIdle
    /\ ConfirmIdle
    /\ SerialIdle
    /\ ManagerIdle

\* Parsers.String.parse(ctx)
StringParse ==
    /\ parsed = <<>>
    /\ LET p == ParsersString(str, idx) IN
         /\ idx' = p.idx
         /\ parsed' = <<ParserCall("parse", "String", str, idx, p.idx, p.res, <<>>)>>
    /\ UNCHANGED <<str, ist, outsideParsers>>

\* Parsers.Duration.parse(ctx), on the input or on the text emit returned
DurationParse ==
    /\ LastOp \in {"none", "emit"}
    /\ LET p == ParsersDuration(str, idx) IN
         /\ idx' = p.idx
         /\ parsed' = Append(parsed,
                ParserCall("parse", "Duration", str, idx, p.idx, p.res, <<>>))
    /\ UNCHANGED <<str, ist, outsideParsers>>

\* Parsers.Duration.emit(value) of the value parsed, and a reader over its text
DurationEmitParsed ==
    /\ Len(parsed) = 1
    /\ parsed[1].parser = "Duration"
    /\ parsed[1].res.error = None
    /\ LET text == DurationEmit(parsed[1].res.value) IN
         /\ parsed' = Append(parsed,
                ParserCall("emit", "Duration", <<>>, 0, 0, NoParse, text))
         /\ str' = text
         /\ idx' = 0
    /\ UNCHANGED <<ist, outsideParsers>>

NextParsers == StringParse \/ DurationParse \/ DurationEmitParsed

SpecParsers == InitParsers /\ [][NextParsers]_vars

-----------------------------------------------------------------------------
(* services/interaction-service.ts: Interaction, InteractionManager and the  *)
(* event trigger an interaction listens on                                   *)

\* the Interaction objects of the run
InteractionRefs == DOMAIN objects

NoRef == "none"

\* the values nextId() hands out during the run
Ids == DOMAIN interactions

\* the names interactions are given during the run
Names == DOMAIN interactionsByName

\* name: undefined
NoName == "undefined"

\* an Interaction that was not constructed yet
NotMade ==
    [made |-> FALSE, id |-> "undefined", name |-> NoName, persistent |-> FALSE,
     lifetime |-> "undefined", triggers |-> FALSE, conditions |-> <<>>,
     actions |-> <<>>]

\* new Interaction(), with the id builder() gives it; conditions and actions
\* hold the conditions and actions in registration order, triggers tells
\* whether when() set the trigger
NewInteraction(id) == [NotMade EXCEPT !.made = TRUE, !.id = id]

\* one entry of the call history: the calls made by the latest delivery of an
\* event. In a trigger entry, n is 1 when ctxRaw was an InteractionContext
\* and 0 when it was the raw arguments, and result tells whether the ctx
\* handed to the conditions, the actions and the lifetime is defined
Call(op, ref, n, result) == [op |-> op, ref |-> ref, n |-> n, result |-> result]

\* the calls of kind op made on interaction i
CallsOn(calls, op, i) == SelectSeq(calls, LAMBDA c : c.op = op /\ c.ref = i)

\* no exception, and the exception a call on interaction ref threw
NoThrow == [op |-> "none", ref |-> NoRef, error |-> "none"]

Thrown(op, ref, error) == [op |-> op, ref |-> ref, error |-> error]

\* what trigger() can be handed: the raw event arguments, or a context
CtxRaws == {"arguments", "InteractionContext"}

\* ctx after 'if (!(ctxRaw instanceof InteractionContext)) ctx = new
\* InteractionContext(this, ctxRaw)': there is no else branch
ContextOf(ctxRaw) == IF ctxRaw # "InteractionContext" THEN "new" ELSE "undefined"

\* the part of the state a trigger() call works on
Registry ==
    [interactions |-> interactions, interactionsByName |-> interactionsByName,
     listeners |-> listeners, callLog |-> callLog]

\* Array.findIndex(l => l.interaction == interaction), 0-based, -1 when absent
FindIndex(list, i) ==
    IF \E k \in 1..Len(list) : list[k] = i
    THEN (CHOOSE k \in 1..Len(list) :
            list[k] = i /\ \A j \in 1..(k - 1) : list[j] # i) - 1
    ELSE 0 - 1

\* Array.splice(start, 1): a negative start counts from the end
SpliceOne(list, start) ==
    LET from == IF start < 0 THEN (IF Len(list) + start < 0 THEN 0 ELSE Len(list) + start)
                ELSE start
    IN  IF from >= Len(list) THEN list
        ELSE SubSeq(list, 1, from) \o SubSeq(list, from + 2, Len(list))

\* the trigger's unregister(interaction)
TriggerUnregister(r, i) ==
    [r EXCEPT !.listeners = SpliceOne(@, FindIndex(@, i)),
              !.callLog = Append(@, Call("unregister", i, 0, TRUE))]

\* Interaction.destroy: disable(), then delete from both maps
Destroy(r, i) ==
    LET d == TriggerUnregister(r, i) IN
    [d EXCEPT !.interactions =
                 [id \in DOMAIN @ |-> IF id = objects[i].id THEN NoRef ELSE @[id]],
              !.interactionsByName =
                 [n \in DOMAIN @ |-> IF n = objects[i].name THEN NoRef ELSE @[n]]]

\* CheckConditions that goes on after a condition that failed
RECURSIVE CheckConditions_NoStop(_, _, _, _)
CheckConditions_NoStop(log, i, k, outcome) ==
    LET conditions == objects[i].conditions IN
    IF k > Len(conditions) THEN [callLog |-> log, passed |-> TRUE]
    ELSE CheckConditions_NoStop(
             Append(log, Call("check", i, conditions[k], outcome[conditions[k]])),
             i, k + 1, outcome)

\* for (let condition of this.conditions), from condition k on: the history,
\* and whether every condition passed
RECURSIVE CheckConditions(_, _, _, _)
CheckConditions(log, i, k, outcome) ==
    LET conditions == objects[i].conditions IN
    IF k > Len(conditions) THEN [callLog |-> log, passed |-> TRUE]
    ELSE LET result == outcome[conditions[k]]
             logged == Append(log, Call("check", i, conditions[k], result))
         IN  IF ~result THEN [callLog |-> logged, passed |-> FALSE]
             ELSE CheckConditions(logged, i, k + 1, outcome)

\* this.actions.forEach(a => a.execute(ctx)), from action k on
RECURSIVE ExecuteActions(_, _, _)
ExecuteActions(log, i, k) ==
    LET actions == objects[i].actions IN
    IF k > Len(actions) THEN log
    ELSE ExecuteActions(log \o <<Call("execute", i, actions[k], TRUE),
                                  Call("returned", i, actions[k], TRUE)>>, i, k + 1)

\* HandleLifetime that asks a lifetime only, and keeps an interaction that
\* has none
HandleLifetime_NoLifetimeKeeps(r, i) ==
    LET lifetime == objects[i].lifetime IN
    IF lifetime = "undefined" THEN r
    ELSE LET persist == lifetime = "PERSISTENT"
             asked   == [r EXCEPT !.callLog = Append(@, Call("shouldPersist", i, 0, persist))]
         IN  IF persist THEN asked ELSE Destroy(asked, i)

\* HandleLifetime that never destroys
HandleLifetime_Keep(r, i) == r

\* handle lifetime: destroy unless there is a lifetime and it says persist
HandleLifetime(r, i) ==
    LET lifetime == objects[i].lifetime IN
    IF lifetime = "undefined" THEN Destroy(r, i)
    ELSE LET persist == lifetime = "PERSISTENT"
             asked   == [r EXCEPT !.callLog = Append(@, Call("shouldPersist", i, 0, persist))]
         IN  IF persist THEN asked ELSE Destroy(asked, i)

\* Interaction.trigger(ctxRaw), outcome telling what each condition returns
Trigger(r, i, outcome, ctxRaw) ==
    LET started == Append(r.callLog,
                          Call("trigger", i,
                               IF ctxRaw = "InteractionContext" THEN 1 ELSE 0,
                               ContextOf(ctxRaw) # "undefined"))
        checked == CheckConditions(started, i, 1, outcome)
    IN  IF ~checked.passed THEN [r EXCEPT !.callLog = checked.callLog]
        ELSE HandleLifetime(
                 [r EXCEPT !.callLog = ExecuteActions(checked.callLog, i, 1)], i)

\* listeners.forEach(l => l.interaction.trigger(mapped)): indexes 1..len of
\* the array as it is when each index comes up; outcome[i] tells what the
\* conditions of interaction i return for this event
RECURSIVE FanOut(_, _, _, _)
FanOut(r, k, len, outcome) ==
    IF k > len THEN r
    ELSE IF k > Len(r.listeners) THEN FanOut(r, k + 1, len, outcome)
    ELSE FanOut(Trigger(r, r.listeners[k], outcome[r.listeners[k]], "arguments"),
                k + 1, len, outcome)

InitInteractions ==
    /\ ReaderIdle
    /\ ContextIdle
    /\ ResultsIdle
    /\ RenderIdle
    /\ ParsersIdle
    /\ ConfirmIdle
    /\ SerialIdle
    /\ ManagerIdle
    /\ objects = [i \in {"i1"} |-> NotMade]
    /\ interactions = [id \in {"ms1"} |-> NoRef]
    /\ interactionsByName = [n \in {"n"} |-> NoRef]
    /\ listeners = <<>>
    /\ callLog = <<>>
    /\ thrown = NoThrow

\* InteractionManager.register(interaction)
ManagerRegister(i, obj) ==
    /\ interactions' = [interactions EXCEPT ![obj.id] = i]
    /\ interactionsByName' =
         IF obj.name # NoName THEN [interactionsByName EXCEPT ![obj.name] = i]
         ELSE interactionsByName

\* InteractionManager.builder()
Builder ==
    /\ \E i \in InteractionRefs, id \in Ids :
         /\ ~objects[i].made
         /\ objects' = [objects EXCEPT ![i] = NewInteraction(id)]
         /\ ManagerRegister(i, NewInteraction(id))
    /\ thrown' = NoThrow
    /\ UNCHANGED <<listeners, callLog, outsideInteractions>>

\* InteractionManager.register(interaction), called again
Register ==
    /\ \E i \in InteractionRefs :
         /\ objects[i].made
         /\ ManagerRegister(i, objects[i])
    /\ thrown' = NoThrow
    /\ UNCHANGED <<objects, listeners, callLog, outsideInteractions>>

\* Interaction.named(name)
Named ==
    /\ \E i \in InteractionRefs, n \in Names :
         /\ objects[i].made
         /\ objects' = [objects EXCEPT ![i].name = n]
    /\ thrown' = NoThrow
    /\ UNCHANGED <<interactions, interactionsByName, listeners, callLog,
                   outsideInteractions>>

\* Interaction.persist(name), name optional
Persist ==
    /\ \E i \in InteractionRefs, n \in Names \cup {NoName} :
         /\ objects[i].made
         /\ objects' = [objects EXCEPT ![i].name = IF n # NoName THEN n ELSE @,
                                       ![i].persistent = TRUE,
                                       ![i].lifetime = "PERSISTENT"]
    /\ thrown' = NoThrow
    /\ UNCHANGED <<interactions, interactionsByName, listeners, callLog,
                   outsideInteractions>>

\* Interaction.once()
Once ==
    /\ \E i \in InteractionRefs :
         /\ objects[i].made
         /\ objects' = [objects EXCEPT ![i].lifetime = "once"]
    /\ thrown' = NoThrow
    /\ UNCHANGED <<interactions, interactionsByName, listeners, callLog,
                   outsideInteractions>>

\* Interaction.when(trigger): throws when the trigger is undefined
When ==
    /\ \E i \in InteractionRefs, trigger \in BOOLEAN :
         /\ objects[i].made
         /\ IF ~trigger
            THEN /\ thrown' = Thrown("when", i, "Error")
                 /\ UNCHANGED objects
            ELSE /\ thrown' = NoThrow
                 /\ objects' = [objects EXCEPT ![i].triggers = TRUE]
    /\ UNCHANGED <<interactions, interactionsByName, listeners, callLog,
                   outsideInteractions>>

\* Interaction.onlyIf(condition): the k-th call adds condition k
OnlyIf ==
    /\ \E i \in InteractionRefs :
         /\ objects[i].made
         /\ Len(objects[i].conditions) < MaxConditions
         /\ objects' = [objects EXCEPT ![i].conditions = Append(@, Len(@) + 1)]
    /\ thrown' = NoThrow
    /\ UNCHANGED <<interactions, interactionsByName, listeners, callLog,
                   outsideInteractions>>

\* Interaction.then(action): the k-th call adds action k
Then ==
    /\ \E i \in InteractionRefs :
         /\ objects[i].made
         /\ Len(objects[i].actions) < MaxActions
         /\ objects' = [objects EXCEPT ![i].actions = Append(@, Len(@) + 1)]
    /\ thrown' = NoThrow
    /\ UNCHANGED <<interactions, interactionsByName, listeners, callLog,
                   outsideInteractions>>

\* Create that takes this.triggers to be set
Create_NoTrigger ==
    /\ \E i \in InteractionRefs :
         /\ objects[i].made
         /\ Len(listeners) < MaxListeners
         /\ thrown' = NoThrow
         /\ listeners' = Append(listeners, i)
    /\ UNCHANGED <<objects, interactions, interactionsByName, callLog,
                   outsideInteractions>>

\* Interaction.create(): enable(), which calls this.triggers.register(this),
\* a TypeError when this.triggers is undefined
Create ==
    /\ \E i \in InteractionRefs :
         /\ objects[i].made
         /\ IF ~objects[i].triggers
            THEN /\ thrown' = Thrown("create", i, "TypeError")
                 /\ UNCHANGED listeners
            ELSE /\ Len(listeners) < MaxListeners
                 /\ thrown' = NoThrow
                 /\ listeners' = Append(listeners, i)
    /\ UNCHANGED <<objects, interactions, interactionsByName, callLog,
                   outsideInteractions>>

\* what the conditions of interaction i return for one event: true up to some
\* condition, false from it on (a condition after the first false one is never
\* asked)
Outcomes(i) ==
    {[c \in 1..MaxConditions |-> c <= n] : n \in 0..Len(objects[i].conditions)}

\* the entry that opens the history of a delivery or of a direct call; n
\* alternates between 0 and 1 from one to the next
Header(op) ==
    Call(op, NoRef, IF callLog = <<>> THEN 0 ELSE 1 - callLog[1].n, TRUE)

NextEvent == Header("event")

\* the platform delivers an event to the trigger
Fire ==
    /\ \E outcome \in [InteractionRefs -> [1..MaxConditions -> BOOLEAN]] :
         /\ \A i \in InteractionRefs : outcome[i] \in Outcomes(i)
         /\ \E r \in {FanOut([Registry EXCEPT !.callLog = <<NextEvent>>],
                              1, Len(listeners), outcome)} :
              /\ interactions' = r.interactions
              /\ interactionsByName' = r.interactionsByName
              /\ listeners' = r.listeners
              /\ callLog' = r.callLog
    /\ thrown' = NoThrow
    /\ UNCHANGED <<objects, outsideInteractions>>

\* Interaction.trigger(ctxRaw) called on a created interaction by other code
\* than the event source
TriggerDirect ==
    /\ \E i \in InteractionRefs, ctxRaw \in CtxRaws :
         /\ \E k \in 1..Len(listeners) : listeners[k] = i
         /\ \E outcome \in Outcomes(i) :
              \E r \in {Trigger([Registry EXCEPT !.callLog = <<Header("direct")>>],
                                i, outcome, ctxRaw)} :
                /\ interactions' = r.interactions
                /\ interactionsByName' = r.interactionsByName
                /\ listeners' = r.listeners
                /\ callLog' = r.callLog
    /\ thrown' = NoThrow
    /\ UNCHANGED <<objects, outsideInteractions>>

\* InteractionManager.remove(key), key a name or an id: destroy() calls
\* disable() first, a TypeError when this.triggers is undefined
Remove ==
    /\ \E key \in Names \cup Ids :
         LET i == IF key \in Ids THEN interactions[key] ELSE interactionsByName[key] IN
         IF i = NoRef
         THEN /\ thrown' = NoThrow
              /\ UNCHANGED <<interactions, interactionsByName, listeners>>
         ELSE IF ~objects[i].triggers
         THEN /\ thrown' = Thrown("remove", i, "TypeError")
              /\ UNCHANGED <<interactions, interactionsByName, listeners>>
         ELSE /\ thrown' = NoThrow
              /\ \E r \in {Destroy(Registry, i)} :
                   /\ interactions' = r.interactions
                   /\ interactionsByName' = r.interactionsByName
                   /\ listeners' = r.listeners
    /\ UNCHANGED <<objects, callLog, outsideInteractions>>

NextInteractions ==
    \/ Builder
    \/ Register
    \/ Named
    \/ Persist
    \/ Once
    \/ When
    \/ OnlyIf
    \/ Then
    \/ Create
    \/ Fire
    \/ Remove

SpecInteractions == InitInteractions /\ [][NextInteractions]_vars

\* two interactions on one event trigger, built in the same or in different
\* clock milliseconds
InitFanOut ==
    /\ ReaderIdle
    /\ ContextIdle
    /\ ResultsIdle
    /\ RenderIdle
    /\ ParsersIdle
    /\ ConfirmIdle
    /\ SerialIdle
    /\ ManagerIdle
    /\ objects = [i \in {"i1", "i2"} |-> NotMade]
    /\ interactions = [id \in {"ms1", "ms2"} |-> NoRef]
    /\ interactionsByName = [n \in {"n"} |-> NoRef]
    /\ listeners = <<>>
    /\ callLog = <<>>
    /\ thrown = NoThrow

NextFanOut ==
    \/ Builder
    \/ Persist
    \/ When
    \/ Create
    \/ Fire
    \/ TriggerDirect

SpecFanOut == InitFanOut /\ [][NextFanOut]_vars

\* two interactions and two names in one manager
InitRegistry ==
    /\ ReaderIdle
    /\ ContextIdle
    /\ ResultsIdle
    /\ RenderIdle
    /\ ParsersIdle
    /\ ConfirmIdle
    /\ SerialIdle
    /\ ManagerIdle
    /\ objects = [i \in {"i1", "i2"} |-> NotMade]
    /\ interactions = [id \in {"ms1", "ms2"} |-> NoRef]
    /\ interactionsByName = [n \in {"n", "m"} |-> NoRef]
    /\ listeners = <<>>
    /\ callLog = <<>>
    /\ thrown = NoThrow

\* Interaction.destroy() called on an interaction object: disable() first, a
\* TypeError when this.triggers is undefined
InteractionDestroy ==
    /\ \E i \in InteractionRefs :
         /\ objects[i].made
         /\ IF ~objects[i].triggers
            THEN /\ thrown' = Thrown("destroy", i, "TypeError")
                 /\ UNCHANGED <<interactions, interactionsByName, listeners>>
            ELSE /\ thrown' = NoThrow
                 /\ \E r \in {Destroy(Registry, i)} :
                      /\ interactions' = r.interactions
                      /\ interactionsByName' = r.interactionsByName
                      /\ listeners' = r.listeners
    /\ UNCHANGED <<objects, callLog, outsideInteractions>>

NextRegistry ==
    \/ Builder
    \/ Register
    \/ Named
    \/ When
    \/ Create
    \/ InteractionDestroy
    \/ Remove

SpecRegistry == InitRegistry /\ [][NextRegistry]_vars

-----------------------------------------------------------------------------
(* warnedConfirmMessage: a one-shot interaction on the reaction trigger and  *)
(* a 10 second timer, both of which complete the confirmation                *)

\* no confirmation asked through this interaction: the timer, the complete()
\* calls made by the action and by the timer callback, and the unregister
\* calls made on the trigger for it
NoConfirm == [timer |-> "unset", confirmed |-> 0, expired |-> 0, unregistered |-> 0]

InitConfirm ==
    /\ ReaderIdle
    /\ ContextIdle
    /\ ResultsIdle
    /\ RenderIdle
    /\ ParsersIdle
    /\ SerialIdle
    /\ ManagerIdle
    /\ objects = [i \in {"i1", "i2"} |-> NotMade]
    /\ interactions = [id \in {"ms1", "ms2"} |-> NoRef]
    /\ interactionsByName = [n \in {"n"} |-> NoRef]
    /\ listeners = <<>>
    /\ callLog = <<>>
    /\ thrown = NoThrow
    /\ confirm = [i \in {"i1", "i2"} |-> NoConfirm]

\* the executor of the promise in warnedConfirmMessage: builder().once()
\* .when(Triggers.ReactionAdded).onlyIf(..).onlyIf(..).then(..).create(),
\* then setTimeout
WarnedConfirmMessage ==
    /\ \E i \in InteractionRefs, id \in Ids :
         /\ ~objects[i].made
         /\ Len(listeners) < MaxListeners
         /\ objects' = [objects EXCEPT ![i] =
                           [NewInteraction(id) EXCEPT !.lifetime = "once",
                                                      !.triggers = TRUE,
                                                      !.conditions = <<1, 2>>,
                                                      !.actions = <<1>>]]
         /\ ManagerRegister(i, NewInteraction(id))
         /\ listeners' = Append(listeners, i)
         /\ confirm' = [confirm EXCEPT ![i].timer = "armed"]
    /\ thrown' = NoThrow
    /\ UNCHANGED <<callLog, outsideConfirm>>

\* a messageReactionAdd event: the fan-out of the trigger; the action of a
\* confirmation interaction calls complete() once when it is executed
ReactionAdded ==
    /\ \E outcome \in [InteractionRefs -> [1..MaxConditions -> BOOLEAN]] :
         /\ \A i \in InteractionRefs : outcome[i] \in Outcomes(i)
         /\ \E r \in {FanOut([Registry EXCEPT !.callLog = <<NextEvent>>],
                              1, Len(listeners), outcome)} :
              /\ interactions' = r.interactions
              /\ interactionsByName' = r.interactionsByName
              /\ listeners' = r.listeners
              /\ callLog' = r.callLog
              /\ confirm' =
                   [i \in DOMAIN confirm |->
                      [confirm[i] EXCEPT
                         !.confirmed = @ + Len(CallsOn(r.callLog, "execute", i)),
                         !.unregistered = @ + Len(CallsOn(r.callLog, "unregister", i))]]
    /\ thrown' = NoThrow
    /\ UNCHANGED <<objects, outsideConfirm>>

\* the setTimeout callback, 10 seconds after the message: interaction.destroy()
\* and complete(); nothing cancels the timer
Timeout ==
    /\ \E i \in InteractionRefs :
         /\ confirm[i].timer = "armed"
         /\ \E r \in {Destroy(Registry, i)} :
              /\ interactions' = r.interactions
              /\ interactionsByName' = r.interactionsByName
              /\ listeners' = r.listeners
         /\ confirm' = [confirm EXCEPT ![i].timer = "fired",
                                       ![i].expired = @ + 1,
                                       ![i].unregistered = @ + 1]
    /\ thrown' = NoThrow
    /\ UNCHANGED <<objects, callLog, outsideConfirm>>

NextConfirm ==
    \/ WarnedConfirmMessage
    \/ ReactionAdded
    \/ Timeout

SpecConfirm == InitConfirm /\ [][NextConfirm]_vars

-----------------------------------------------------------------------------
(* services/interaction-service.ts: components, and the saving and loading   *)
(* of interactions                                                           *)

\* the most components in the list of a TriggerList or an OrConditionList
MaxNested == 1

\* the most conditions, and the most actions, of a saved interaction
MaxSaved == 2

\* the most entries in the interactions list of the persisted data
MaxEntries == 2

\* the names and values of the parameters given to ParamCondition.with and
\* ParamAction.with; a parameter bag is a set of <<name, value>> entries
ParamNames == {"id", "key"}

ParamValues == {"1"}

ParamBags == SUBSET (ParamNames \X ParamValues)

\* an InteractionComponent: its class (kind), type(), name(), and the fields
\* params (ParamCondition, ParamAction), list (the lists; hasList is FALSE
\* while the field is undefined) and base (InvertedCondition), the latter two
\* held in parts
Component(kind, type, name, params, hasList, parts) ==
    [kind |-> kind, type |-> type, name |-> name, params |-> params,
     hasList |-> hasList, parts |-> parts]

\* undefined where a component is expected
UndefinedComponent == Component("undefined", "undefined", "undefined", {}, FALSE, <<>>)

\* a TypeError raised where a component was to be produced
ThrownComponent == Component("throw", "undefined", "undefined", {}, FALSE, <<>>)

\* createDiscordEventTrigger, createSimpleCondition, createSimpleAction
SimpleComponent(type, name) == Component("simple", type, name, {}, FALSE, <<>>)

\* new ParamCondition(name, params, func), new ParamAction(name, params, func)
ParamComponent(type, name, params) == Component("param", type, name, params, FALSE, <<>>)

\* new InvertedCondition(base)
InvertedCondition(base) ==
    Component("inverted", "condition", "inverted", {}, FALSE, <<base>>)

\* an OrConditionList; the constructor leaves list undefined
OrConditionList(hasList, list) ==
    Component("orList", "condition", "orList", {}, hasList, list)

\* a TriggerList; the constructor leaves list undefined
TriggerList(hasList, list) ==
    Component("triggerList", "trigger", "list", {}, hasList, list)

\* condition(pred), action(func): name() is undefined, isSerializable() false
Closure(type) == Component("closure", type, "undefined", {}, FALSE, <<>>)

\* InteractionComponent.key(): type() + "::" + name()
Key(c) == <<c.type, c.name>>

\* Trigger.or, TriggerList.or: list.list.push on a fresh TriggerList, whose
\* list is undefined, is a TypeError; an existing list gains the trigger
TriggerOr(t1, t2) ==
    IF t1.kind = "triggerList" /\ t1.hasList
    THEN [threw |-> FALSE, value |-> <<TriggerList(TRUE, Append(t1.parts, t2))>>]
    ELSE [threw |-> TRUE, value |-> <<>>]

\* isSerializable(): "true", "false", or "throw" for the TypeError of
\* TriggerList.isSerializable on an undefined list; every() stops at the
\* first trigger that is not serializable
RECURSIVE IsSerializable(_)
IsSerializable(c) ==
    CASE c.kind = "closure" -> "false"
      [] c.kind = "undefined" -> "throw"
      [] c.kind = "triggerList" ->
           IF ~c.hasList
           THEN "throw"
           ELSE LET bad == {p \in 1..Len(c.parts) : IsSerializable(c.parts[p]) # "true"}
                IN  IF bad = {}
                    THEN "true"
                    ELSE IsSerializable(c.parts[CHOOSE p \in bad : \A q \in bad : p <= q])
      [] OTHER -> "true"

\* isParameterized()
IsParameterized(c) == c.kind \in {"param", "inverted", "orList", "triggerList"}

\* what saveComponent returns: a string (the key, or the marker) or an object
\* with its key, the parameter entries, and the field list or base (in parts)
Data(form, key, params, field, parts) ==
    [form |-> form, key |-> key, params |-> params, field |-> field, parts |-> parts]

DataString(key) == Data("string", key, {}, "none", <<>>)

DataObject(key, params, field, parts) == Data("object", key, params, field, parts)

\* the marker saved for a component that is not serializable
ErrUnserializable == DataString(<<"ERRUNSERIALIZABLE">>)

\* a TypeError raised while saving
ThrownData == Data("throw", <<>>, {}, "none", <<>>)

\* registerBaseComponent: the base instances of the manager's constructor,
\* those of the Triggers, Conditions and Actions namespaces, and an action
\* registered through createSimpleAction
BaseTriggers ==
    {SimpleComponent("trigger", "discord.messageCreate"),
     SimpleComponent("trigger", "discord.messageReactionAdd")}

BaseComponents ==
    {TriggerList(FALSE, <<>>), OrConditionList(FALSE, <<>>),
     InvertedCondition(UndefinedComponent),
     SimpleComponent("condition", "userIsBot"),
     ParamComponent("condition", "isMessage", {}),
     SimpleComponent("action", "reply"),
     ParamComponent("action", "giveRole", {})} \cup BaseTriggers

\* getBaseComponent: baseComponents.get(name)
GetBaseComponent(key) ==
    IF \E c \in BaseComponents : Key(c) = key
    THEN CHOOSE c \in BaseComponents : Key(c) = key
    ELSE UndefinedComponent

\* ParamCondition.saveParameters, ParamAction.saveParameters: every entry of
\* params is assigned onto the data object, the one named key over data.key
ParamSaveParameters(c) ==
    LET over == {e \in c.params : e[1] = "key"}
    IN  DataObject(IF over = {} THEN Key(c) ELSE <<(CHOOSE e \in over : TRUE)[2]>>,
                   c.params \ over, "none", <<>>)

\* saveComponent
RECURSIVE SaveComponent(_)
SaveComponent(c) ==
    LET serializable == IsSerializable(c)
        saved == [p \in 1..Len(c.parts) |-> SaveComponent(c.parts[p])]
        failed == \E p \in 1..Len(c.parts) : saved[p].form = "throw"
    IN  CASE serializable = "throw" -> ThrownData
          [] serializable = "false" -> ErrUnserializable
          [] ~IsParameterized(c) -> DataString(Key(c))
          [] c.kind = "param" -> ParamSaveParameters(c)
          [] c.kind = "inverted" ->
               IF failed THEN ThrownData ELSE DataObject(Key(c), {}, "base", saved)
          [] OTHER ->
               IF ~c.hasList \/ failed
               THEN ThrownData
               ELSE DataObject(Key(c), {}, "list", saved)

\* loadComponent and the createWithParameters of each class
RECURSIVE LoadComponent(_)
CreateWithParameters(base, from) ==
    CASE base.kind = "param" -> ParamComponent(base.type, base.name, from.params)
      [] base.kind = "inverted" ->
           IF from.field # "base"
           THEN ThrownComponent
           ELSE LET loaded == LoadComponent(from.parts[1])
                IN  IF loaded.kind = "throw"
                    THEN ThrownComponent
                    ELSE InvertedCondition(loaded)
      [] base.kind \in {"orList", "triggerList"} ->
           IF from.field # "list"
           THEN UndefinedComponent
           ELSE IF from.parts = <<>>
                THEN Component(base.kind, base.type, base.name, {}, FALSE, <<>>)
                ELSE ThrownComponent
      [] OTHER -> UndefinedComponent

LoadComponent(data) ==
    IF data.form = "string"
    THEN GetBaseComponent(data.key)
    ELSE IF GetBaseComponent(data.key).kind = "undefined"
         THEN ThrownComponent
         ELSE CreateWithParameters(GetBaseComponent(data.key), data)

\* the fields of an Interaction that are saved and loaded
SavedInteraction(id, name, persistent, triggers, conditions, actions) ==
    [id |-> id, name |-> name, persistent |-> persistent, triggers |-> triggers,
     conditions |-> conditions, actions |-> actions]

\* serializeInteraction: the object (none when a TypeError was caught) and
\* the warnings logged
SerializeInteraction(i) ==
    LET trigger == SaveComponent(i.triggers)
        conditions == [p \in 1..Len(i.conditions) |-> SaveComponent(i.conditions[p])]
        actions == [p \in 1..Len(i.actions) |-> SaveComponent(i.actions[p])]
    IN  IF \/ trigger.form = "throw"
           \/ \E p \in 1..Len(conditions) : conditions[p].form = "throw"
           \/ \E p \in 1..Len(actions) : actions[p].form = "throw"
        THEN [obj |-> <<>>, warnings |-> 1]
        ELSE [obj |-> <<[name |-> i.name, id |-> i.id, trigger |-> trigger,
                         conditions |-> conditions, actions |-> actions]>>,
              warnings |-> 0]

\* deserializeInteraction of an object, or of undefined (src = <<>>): then
\* src.name is a TypeError in the try block and again in the catch block
DeserializeInteraction(src) ==
    IF src = <<>>
    THEN [interaction |-> <<>>, warnings |-> 0, threw |-> TRUE]
    ELSE LET triggers == LoadComponent(src[1].trigger)
             conditions == [p \in 1..Len(src[1].conditions) |->
                              LoadComponent(src[1].conditions[p])]
             actions == [p \in 1..Len(src[1].actions) |->
                           LoadComponent(src[1].actions[p])]
         IN  IF \/ triggers.kind = "throw"
                \/ \E p \in 1..Len(conditions) : conditions[p].kind = "throw"
                \/ \E p \in 1..Len(actions) : actions[p].kind = "throw"
             THEN [interaction |-> <<>>, warnings |-> 1, threw |-> FALSE]
             ELSE [interaction |-> <<SavedInteraction(src[1].id, src[1].name, TRUE,
                                                      triggers, conditions, actions)>>,
                   warnings |-> 0, threw |-> FALSE]

\* Interaction.enable on a loaded interaction: triggers.register is a
\* TypeError on undefined and on a TriggerList whose list is undefined
EnableThrows(i) ==
    \/ i.triggers.kind = "undefined"
    \/ i.triggers.kind = "triggerList" /\ ~i.triggers.hasList

\* a serialization call and what it produced: the warnings logged, the
\* objects written, the interactions built (and registered), the ids of the
\* interactions create()d, the trigger composed, and whether the call threw
SerialOutcome(op, threw, warnings, data, restored, created, composed) ==
    [op |-> op, threw |-> threw, warnings |-> warnings, data |-> data,
     restored |-> restored, created |-> created, composed |-> composed]

NoSerialOutcome == SerialOutcome("none", FALSE, 0, <<>>, <<>>, <<>>, <<>>)

\* the forEach of loadAllPersistentData from entry k on: deserialize,
\* register (which ignores undefined), create; an exception ends the loop
RECURSIVE LoadEntries(_, _, _)
LoadEntries(list, k, acc) ==
    IF k > Len(list)
    THEN acc
    ELSE LET d == DeserializeInteraction(<<list[k]>>)
             logged == [acc EXCEPT !.warnings = @ + d.warnings]
         IN  IF d.interaction = <<>>
             THEN [logged EXCEPT !.threw = TRUE]
             ELSE IF EnableThrows(d.interaction[1])
                  THEN [logged EXCEPT !.restored = Append(@, d.interaction[1]),
                                      !.threw = TRUE]
                  ELSE LoadEntries(list, k + 1,
                           [logged EXCEPT !.restored = Append(@, d.interaction[1]),
                                          !.created = Append(@, d.interaction[1].id)])

\* the triggers, conditions and actions an interaction is built from
NestedTriggers == SeqsUpTo(BaseTriggers, MaxNested)

SourceTriggers ==
    BaseTriggers \cup {TriggerList(FALSE, <<>>)}
                 \cup {TriggerList(TRUE, list) : list \in NestedTriggers}

LeafConditions ==
    {SimpleComponent("condition", "userIsBot"), Closure("condition")}
        \cup {ParamComponent("condition", "isMessage", bag) : bag \in ParamBags}

NestedConditions ==
    {SimpleComponent("condition", "userIsBot"), Closure("condition"),
     ParamComponent("condition", "isMessage", {<<"id", "1">>})}

SourceConditions ==
    LeafConditions \cup {InvertedCondition(c) : c \in LeafConditions}
                   \cup {OrConditionList(FALSE, <<>>)}
                   \cup {OrConditionList(TRUE, list) :
                           list \in SeqsUpTo(NestedConditions, MaxNested)}

SourceActions ==
    {SimpleComponent("action", "reply"), Closure("action")}
        \cup {ParamComponent("action", "giveRole", bag) : bag \in ParamBags}

\* the interactions handed to the serialization logic: one of triggers,
\* conditions and actions varies at a time
DefaultTrigger == SimpleComponent("trigger", "discord.messageCreate")

DefaultSource == SavedInteraction("ms1", "n", TRUE, DefaultTrigger, <<>>, <<>>)

Sources ==
    {SavedInteraction("ms1", name, persistent, DefaultTrigger, <<>>, <<>>) :
        name \in {NoName, "n"}, persistent \in BOOLEAN}
      \cup {[DefaultSource EXCEPT !.triggers = t] : t \in SourceTriggers}
      \cup {[DefaultSource EXCEPT !.conditions = cs] :
              cs \in SeqsUpTo(SourceConditions, MaxSaved)}
      \cup {[DefaultSource EXCEPT !.actions = as] :
              as \in SeqsUpTo(SourceActions, MaxSaved)}

\* the entries of a persisted list: one that loads, one whose trigger is an
\* unknown key, one with a condition that is an unknown key, and one with a
\* condition that is a record with an unknown key
EntryKinds == {"good", "unknownTrigger", "unknownCondition", "unknownRecord"}

UnknownKey == <<"condition", "removed">>

PersistedEntry(kind, id) ==
    [name |-> NoName, id |-> id,
     trigger |-> IF kind = "unknownTrigger"
                 THEN DataString(<<"trigger", "removed">>)
                 ELSE DataString(Key(DefaultTrigger)),
     conditions |->
        CASE kind = "unknownCondition" -> <<DataString(UnknownKey)>>
          [] kind = "unknownRecord" ->
               <<DataObject(UnknownKey, {<<"id", "1">>}, "none", <<>>)>>
          [] OTHER -> <<DataObject(<<"condition", "isMessage">>, {<<"id", "1">>},
                                   "none", <<>>)>>,
     actions |-> <<DataString(<<"action", "reply">>)>>]

PersistedLists ==
    {[k \in DOMAIN kinds |-> PersistedEntry(kinds[k], k)] :
        kinds \in SeqsUpTo(EntryKinds, MaxEntries)}

InitSerial ==
    /\ ReaderIdle
    /\ ContextIdle
    /\ ResultsIdle
    /\ RenderIdle
    /\ ParsersIdle
    /\ InteractionsIdle
    /\ ConfirmIdle
    /\ ManagerIdle
    /\ \/ source \in Sources /\ persisted = <<>>
       \/ source = DefaultSource /\ persisted \in PersistedLists
    /\ serialOut = NoSerialOutcome

\* deserializeInteraction(serializeInteraction(source))
RoundTrip ==
    /\ \E s \in {SerializeInteraction(source)} :
         \E d \in {DeserializeInteraction(s.obj)} :
           serialOut' = SerialOutcome("roundTrip", d.threw, s.warnings + d.warnings,
                                      s.obj, d.interaction, <<>>, <<>>)
    /\ UNCHANGED <<source, persisted, outsideSerial>>

\* saveAllPersistentData with source registered in the manager
SaveAllPersistentData ==
    /\ \E s \in {SerializeInteraction(source)} :
         serialOut' = IF source.persistent
                      THEN SerialOutcome("save", FALSE, s.warnings, s.obj, <<>>, <<>>, <<>>)
                      ELSE SerialOutcome("save", FALSE, 0, <<>>, <<>>, <<>>, <<>>)
    /\ UNCHANGED <<source, persisted, outsideSerial>>

\* loadAllPersistentData of the persisted list
LoadAllPersistentData ==
    /\ serialOut' = LoadEntries(persisted, 1,
                        SerialOutcome("load", FALSE, 0, <<>>, <<>>, <<>>, <<>>))
    /\ UNCHANGED <<source, persisted, outsideSerial>>

\* source.triggers.or(trigger)
Or ==
    /\ \E trigger \in BaseTriggers :
         \E r \in {TriggerOr(source.triggers, trigger)} :
           serialOut' = SerialOutcome("or", r.threw, 0, <<>>, <<>>, <<>>, r.value)
    /\ UNCHANGED <<source, persisted, outsideSerial>>

NextSerial ==
    \/ RoundTrip
    \/ SaveAllPersistentData
    \/ LoadAllPersistentData
    \/ Or

SpecSerial == InitSerial /\ [][NextSerial]_vars

-----------------------------------------------------------------------------
(* services/command-service.ts: the description rendered for a result        *)

\* String.split(sep): the pieces of text between the separators, cur being
\* the piece under construction
RECURSIVE SplitFrom(_, _, _)
SplitFrom(text, sep, cur) ==
    IF text = <<>> THEN <<cur>>
    ELSE IF Head(text) = sep THEN <<cur>> \o SplitFrom(Tail(text), sep, <<>>)
    ELSE SplitFrom(Tail(text), sep, Append(cur, Head(text)))

Split(text, sep) == SplitFrom(text, sep, <<>>)

\* the marks the descriptions open with, character by character: a check mark
\* or a cross between two backquotes, and a space
SuccessMark == <<"backquote", "check", "backquote", " ">>

FailMark == <<"backquote", "cross", "backquote", " ">>

\* the body buildMessage and buildDesc share: the only line of a one-line
\* message, else a line break and split[1]
DescOf(mark, message) ==
    LET split == Split(message, "\n")
    IN  IF Len(split) = 1 THEN mark \o split[1]
        ELSE mark \o <<"\n">> \o split[2]

\* SuccessResult.buildMessage: no message, no payload
SuccessBuildMessage(message) ==
    IF message = <<>> THEN None ELSE Some(DescOf(SuccessMark, message))

\* FailResult.buildDesc
FailBuildDesc(message) == Some(DescOf(FailMark, message))

\* UncaughtErrorResult.buildDesc
UncaughtBuildDesc(message) == Some(DescOf(FailMark, message))

MessageChars == {"a", "b", "\n"}

InitRender ==
    /\ ReaderIdle
    /\ ContextIdle
    /\ ResultsIdle
    /\ ParsersIdle
    /\ InteractionsIdle
    /\ ConfirmIdle
    /\ SerialIdle
    /\ ManagerIdle
    /\ \E kind \in {"Success", "Fail", "UncaughtError"},
          message \in SeqsUpTo(MessageChars, MaxMessageLen) :
         rendered = [kind |-> kind, message |-> message, desc |-> None]

RenderSuccess ==
    /\ rendered.kind = "Success"
    /\ rendered.desc = None
    /\ rendered' = [rendered EXCEPT !.desc = SuccessBuildMessage(rendered.message)]
    /\ UNCHANGED outsideRender

RenderFail ==
    /\ rendered.kind = "Fail"
    /\ rendered.desc = None
    /\ rendered' = [rendered EXCEPT !.desc = FailBuildDesc(rendered.message)]
    /\ UNCHANGED outsideRender

RenderUncaught ==
    /\ rendered.kind = "UncaughtError"
    /\ rendered.desc = None
    /\ rendered' = [rendered EXCEPT !.desc = UncaughtBuildDesc(rendered.message)]
    /\ UNCHANGED outsideRender

NextRender == RenderSuccess \/ RenderFail \/ RenderUncaught

SpecRender == InitRender /\ [][NextRender]_vars

-----------------------------------------------------------------------------
(* services.ts: the event bus                                                *)

\* the most listeners registered on one bus, and the highest priority
MaxBusListeners == 3

MaxPriority == 2

Events == {"ready", "message"}

Priorities == 0 .. MaxPriority

\* a FunctionEventListener: its priority() is options.priority; id tells the
\* listener objects apart
EventListener(id, event, priority) == [id |-> id, event |-> event, priority |-> priority]

\* MultiListener.addListener: i1 starts at 0 and becomes the (0-based) index of
\* the first listener with a higher priority, when there is one;
\* user.splice(i1, 0, listener)
addListener(user, listener) ==
    LET higher == {i \in 1 .. Len(user) : user[i].priority > listener.priority}
        i1 == IF higher = {} THEN 0
              ELSE (CHOOSE i \in higher : \A j \in higher : i <= j) - 1
    IN  SubSeq(user, 1, i1) \o <<listener>> \o SubSeq(user, i1 + 1, Len(user))

\* MultiListener.handle: user.forEach(listener => listener.handle(call))
handle(user) == user

\* the listeners registered so far, on any event
Registered == UNION {{busListeners[e][i] : i \in 1 .. Len(busListeners[e])} :
                     e \in DOMAIN busListeners}

InitBus ==
    /\ ReaderIdle
    /\ ContextIdle
    /\ ResultsIdle
    /\ RenderIdle
    /\ ParsersIdle
    /\ InteractionsIdle
    /\ ConfirmIdle
    /\ SerialIdle
    /\ PermissionsIdle
    /\ ServicesIdle
    /\ QueueIdle
    /\ busListeners = <<>>
    /\ handled = <<>>

\* EventBus.register: the MultiListener of the event is created on the first
\* registration
BusRegister ==
    /\ Cardinality(Registered) < MaxBusListeners
    /\ \E event \in Events, priority \in Priorities :
          LET listener == EventListener(Cardinality(Registered) + 1, event, priority)
              base == IF event \in DOMAIN busListeners THEN busListeners[event]
                      ELSE <<>>
          IN  busListeners' =
                 [e \in DOMAIN busListeners \cup {event} |->
                     IF e = event THEN addListener(base, listener)
                     ELSE busListeners[e]]
    /\ UNCHANGED <<handled, permissionVars, serviceVars, queueVars, outsideManager>>

\* EventBus.publish: an event nothing was registered on has no base listener
BusPublish ==
    /\ \E event \in Events :
          handled' = [event |-> event,
                      listeners |-> IF event \in DOMAIN busListeners
                                    THEN handle(busListeners[event])
                                    ELSE <<>>]
    /\ UNCHANGED <<busListeners, permissionVars, serviceVars, queueVars,
                   outsideManager>>

NextBus == BusRegister \/ BusPublish

SpecBus == InitBus /\ [][NextBus]_vars

-----------------------------------------------------------------------------
(* permissions: PermissionNode, PermissionObject, GroupBasedPermissible      *)

\* the longest permission path that is set or checked
MaxPermPath == 2

\* enum Permit
Permit == [NONE |-> 0, ALLOW |-> 1, DENY |-> 0 - 1]

Permits == {Permit.NONE, Permit.ALLOW, Permit.DENY}

\* the parts of a permission path: a node name, or the wildcard
PathParts == {"a", "*"}

PermPaths == SeqsUpTo(PathParts, MaxPermPath)

\* newBaseNode(): a node with permit NONE and no children. A tree is a function
\* from the path of names leading to a node to the permit of the node
newBaseNode == (<<>> :> Permit.NONE)

\* PermissionNode.set: walks down from the node along the parts, skipping '*',
\* creating the missing nodes with permit NONE, and sets the permit of the node
\* it ends at
RECURSIVE SetFrom(_, _, _, _, _)
SetFrom(tree, current, path, k, permit) ==
    IF k > Len(path) THEN [n \in DOMAIN tree |-> IF n = current THEN permit ELSE tree[n]]
    ELSE IF path[k] = "*" THEN SetFrom(tree, current, path, k + 1, permit)
    ELSE LET child == Append(current, path[k])
             grown == IF child \in DOMAIN tree THEN tree
                      ELSE [n \in DOMAIN tree \cup {child} |->
                               IF n = child THEN Permit.NONE ELSE tree[n]]
         IN  SetFrom(grown, child, path, k + 1, permit)

PermissionNodeSet(tree, path, permit) == SetFrom(tree, <<>>, path, 1, permit)

\* the loop of PermissionNode.check: at each part the permit of the current
\* node replaces the result when it is not NONE, then '*' stays on the node and
\* a name descends to the child, or ends the loop when there is none
RECURSIVE CheckFrom(_, _, _, _, _)
CheckFrom(tree, current, path, k, result) ==
    IF k > Len(path) THEN result
    ELSE LET seen == IF tree[current] # Permit.NONE THEN tree[current] ELSE result
         IN  IF path[k] = "*" THEN CheckFrom(tree, current, path, k + 1, seen)
             ELSE IF Append(current, path[k]) \in DOMAIN tree
                  THEN CheckFrom(tree, Append(current, path[k]), path, k + 1, seen)
                  ELSE seen

\* PermissionNode.check(path, def)
PermissionNodeCheck(tree, path, def) == CheckFrom(tree, <<>>, path, 1, def)

\* what a check call did: returned a permit, or threw
CheckReturned(permit) == [threw |-> "", value |-> permit]

CheckThrew(error) == [threw |-> error, value |-> Permit.NONE]

\* PermissionObject.cacheNode: only setCaching assigns it, and nothing calls
\* setCaching
cacheNode == "undefined"

\* a GroupBasedPermissible.check that returns what the last group said
GroupBasedPermissibleCheck_NoDefault(groups, path, def) ==
    IF groups = <<>> THEN CheckReturned(def) ELSE groups[Len(groups)]

\* PermissionObject.check: the object's own tree, then the cache, then the
\* inherited permissibles in order (inherits holds what each i.check(permission,
\* NONE) does); a non-NONE inherited result is written to the cache node
PermissionObjectCheck(own, inherits, path, def) ==
    LET result == PermissionNodeCheck(own, path, Permit.NONE)
        found == {i \in 1 .. Len(inherits) :
                     inherits[i].threw # "" \/ inherits[i].value # Permit.NONE}
    IN  IF result # Permit.NONE THEN CheckReturned(result)
        ELSE IF found = {} THEN CheckReturned(def)
        ELSE LET i == CHOOSE i \in found : \A j \in found : i <= j
             IN  IF inherits[i].threw # "" THEN inherits[i]
                 ELSE IF cacheNode = "undefined" THEN CheckThrew("TypeError")
                 ELSE inherits[i]

\* GroupBasedPermissible.check: the first group whose check(permission, NONE)
\* is not NONE decides, else the default
GroupBasedPermissibleCheck(groups, path, def) ==
    LET found == {i \in 1 .. Len(groups) :
                     groups[i].threw # "" \/ groups[i].value # Permit.NONE}
    IN  IF found = {} THEN CheckReturned(def)
        ELSE groups[CHOOSE i \in found : \A j \in found : i <= j]

\* the permissibles a check is made on: the base node of a group, the group
\* (a PermissionObject that inherits nothing), an object that holds no
\* permissions of its own and inherits the group, and a member of the group
CheckTargets == {"node", "group", "object", "member"}

Check(target, tree, path, def) ==
    LET group == PermissionObjectCheck(tree, <<>>, path, Permit.NONE)
    IN  CASE target = "node" -> CheckReturned(PermissionNodeCheck(tree, path, def))
          [] target = "group" -> PermissionObjectCheck(tree, <<>>, path, def)
          [] target = "object" -> PermissionObjectCheck(newBaseNode, <<group>>, path, def)
          [] OTHER -> GroupBasedPermissibleCheck(<<group>>, path, def)

InitPermissions ==
    /\ ReaderIdle
    /\ ContextIdle
    /\ ResultsIdle
    /\ RenderIdle
    /\ ParsersIdle
    /\ InteractionsIdle
    /\ ConfirmIdle
    /\ SerialIdle
    /\ BusIdle
    /\ ServicesIdle
    /\ QueueIdle
    /\ baseNode = newBaseNode
    /\ lastSet = <<>>
    /\ checkLog = <<>>

\* group.set(path, permit); checkLog holds the checks made since
PermissionSet ==
    /\ \E path \in PermPaths, permit \in Permits :
          /\ baseNode' = PermissionNodeSet(baseNode, path, permit)
          /\ lastSet' = [path |-> path, permit |-> permit]
    /\ checkLog' = <<>>
    /\ UNCHANGED <<busVars, serviceVars, queueVars, outsideManager>>

\* check(path, def) on each of the permissibles, for every default
PermissionCheck ==
    /\ \E path \in PermPaths :
          checkLog' = [path |-> path,
                       results |-> [target \in CheckTargets |->
                                       [def \in Permits |->
                                           Check(target, baseNode, path, def)]]]
    /\ UNCHANGED <<baseNode, lastSet, busVars, serviceVars, queueVars, outsideManager>>

NextPermissions == PermissionSet \/ PermissionCheck

SpecPermissions == InitPermissions /\ [][NextPermissions]_vars

-----------------------------------------------------------------------------
(* services.ts: ServiceManager.loadAll, BaseService.load, injectDependencies *)

\* the number of service classes
MaxServices == 3

Services == 1 .. MaxServices

\* the @dependency fields a service class can declare, in declaration order:
\* dependencies lead to services with a higher number, so that the graph is
\* acyclic; the registration order is free
DependencyLists(s) ==
    {q \in SeqsUpTo({t \in Services : t > s}, MaxServices) :
        \A i, j \in 1 .. Len(q) : i # j => q[i] # q[j]}

\* the dependency lists of the services from s on
RECURSIVE DependencyGraphs(_)
DependencyGraphs(s) ==
    IF s > MaxServices THEN {<<>>}
    ELSE {<<q>> \o g : q \in DependencyLists(s), g \in DependencyGraphs(s + 1)}

\* manager.getDependency('services', name): the services added to the manager
Resolvable == {servicesList[i] : i \in 1 .. Len(servicesList)}

\* the state a load works on: the loaded flags, the injected fields and the
\* onLoad calls so far
LoadState == [loaded |-> loadedFlags, injected |-> injectedProps,
              calls |-> onLoadLog.calls]

\* an onLoad call: the fields that were injected and the services that had
\* completed their load when it started
OnLoadCall(s, st) ==
    [service |-> s, injected |-> st.injected[s],
     completed |-> {t \in Services : st.loaded[t]}]

RECURSIVE Load(_, _)
RECURSIVE InjectDependencies(_, _, _)
RECURSIVE Load_NoLoadedCheck(_, _)

\* injectDependencies(instance, manager, "load", ctx), from the k-th declared
\* dependency on: a field that is already set is skipped, an unresolved one is
\* left UNRESOLVED, a resolved one is loaded (loadDependency) and then assigned
InjectDependencies(s, k, st) ==
    IF k > Len(dependencies[s]) THEN st
    ELSE LET d == dependencies[s][k]
         IN  IF d \in st.injected[s] \/ d \notin Resolvable
             THEN InjectDependencies(s, k + 1, st)
             ELSE InjectDependencies(s, k + 1,
                     [Load(d, st) EXCEPT !.injected[s] = @ \cup {d}])

\* a load that does not look at the loaded flag
Load_NoLoadedCheck(s, st) ==
    LET injected == InjectDependencies(s, 1, st)
        called == [injected EXCEPT !.calls = Append(@, OnLoadCall(s, injected))]
    IN  IF s \in onLoadThrows THEN called
        ELSE [called EXCEPT !.loaded[s] = TRUE]

\* BaseService.load: nothing when loaded is set; else the dependencies are
\* injected and onLoad runs; loaded is set when onLoad returned, an exception
\* is caught and logged
Load(s, st) ==
    IF st.loaded[s] THEN st
    ELSE LET injected == InjectDependencies(s, 1, st)
             called == [injected EXCEPT !.calls = Append(@, OnLoadCall(s, injected))]
         IN  IF s \in onLoadThrows THEN called
             ELSE [called EXCEPT !.loaded[s] = TRUE]

\* servicesList.forEach(s => s.load(this)), from the k-th service on
RECURSIVE LoadFrom(_, _)
LoadFrom(k, st) ==
    IF k > Len(servicesList) THEN st
    ELSE LoadFrom(k + 1, Load(servicesList[k], st))

InitServices ==
    /\ ReaderIdle
    /\ ContextIdle
    /\ ResultsIdle
    /\ RenderIdle
    /\ ParsersIdle
    /\ InteractionsIdle
    /\ ConfirmIdle
    /\ SerialIdle
    /\ BusIdle
    /\ PermissionsIdle
    /\ QueueIdle
    /\ servicesList = <<>>
    /\ dependencies \in DependencyGraphs(1)
    /\ onLoadThrows \in SUBSET Services
    /\ loadedFlags = [s \in Services |-> FALSE]
    /\ injectedProps = [s \in Services |-> {}]
    /\ onLoadLog = [ran |-> FALSE, calls |-> <<>>]

\* ServiceManager.addService, before the manager is loaded
AddService ==
    /\ ~onLoadLog.ran
    /\ \E s \in Services \ Resolvable : servicesList' = Append(servicesList, s)
    /\ UNCHANGED <<dependencies, onLoadThrows, loadedFlags, injectedProps, onLoadLog,
                   busVars, permissionVars, queueVars, outsideManager>>

\* ServiceManager.loadAll: the load stage
LoadAll ==
    /\ ~onLoadLog.ran
    /\ \E st \in {LoadFrom(1, LoadState)} :
          /\ loadedFlags' = st.loaded
          /\ injectedProps' = st.injected
          /\ onLoadLog' = [ran |-> TRUE, calls |-> st.calls]
    /\ UNCHANGED <<servicesList, dependencies, onLoadThrows, busVars, permissionVars,
                   queueVars, outsideManager>>

NextServices == AddService \/ LoadAll

SpecServices == InitServices /\ [][NextServices]_vars

-----------------------------------------------------------------------------
(* util/functional.ts: AsyncQueue, as Datastore.update drives it             *)

\* the most queue() calls, and the most executeAll() calls
MaxQueued == 3

MaxDrains == 2

\* the QueuedOperation objects: tracked.queuedPush of two tracked objects
Ops == {"p", "q"}

\* new QueuedOperation(): func and queued are not initialised
QueuedOperation == [func |-> 0, queued |-> FALSE]

\* a promise queue() returned: for which operation, after how many drains, and
\* how it stands
QueuePromise(op, drains) ==
    [op |-> op, queuedAt |-> drains, state |-> "pending", value |-> 0, resolvedAt |-> 0]

\* the closures f() of executeAll, one after the other: a closure whose
\* operation is no longer queued returns, else it resolves its promise with
\* op.call() and clears op.queued
RECURSIVE RunOperations(_, _, _)
RunOperations(o, k, q) ==
    IF k > Len(o) THEN q
    ELSE LET f == o[k]
         IN  IF ~q.ops[f.op].queued THEN RunOperations(o, k + 1, q)
             ELSE RunOperations(o, k + 1,
                     [ops |-> [q.ops EXCEPT ![f.op].queued = FALSE],
                      promises |-> [q.promises EXCEPT
                                       ![f.promise].state = "resolved",
                                       ![f.promise].value = q.ops[f.op].func,
                                       ![f.promise].resolvedAt = q.drain],
                      called |-> Append(q.called, f.op),
                      drain |-> q.drain])

InitQueue ==
    /\ ReaderIdle
    /\ ContextIdle
    /\ ResultsIdle
    /\ RenderIdle
    /\ ParsersIdle
    /\ InteractionsIdle
    /\ ConfirmIdle
    /\ SerialIdle
    /\ BusIdle
    /\ PermissionsIdle
    /\ ServicesIdle
    /\ operations = <<>>
    /\ opQueued = [op \in Ops |-> QueuedOperation]
    /\ promises = <<>>
    /\ opCalls = <<>>

\* Datastore.update(tracked, val): tracked.queuedPush.set(func), then
\* AsyncQueue.queue(op): the promise executor returns at once when op.queued is
\* set, else it pushes the closure and sets op.queued
Queue ==
    /\ Len(promises) < MaxQueued
    /\ \E op \in Ops :
          LET k == Len(promises) + 1
              set == [opQueued EXCEPT ![op].func = k]
          IN  /\ promises' = Append(promises, QueuePromise(op, Len(opCalls)))
              /\ IF set[op].queued
                 THEN /\ opQueued' = set
                      /\ UNCHANGED operations
                 ELSE /\ opQueued' = [set EXCEPT ![op].queued = TRUE]
                      /\ operations' = Append(operations, [op |-> op, promise |-> k])
    /\ UNCHANGED <<opCalls, busVars, permissionVars, serviceVars, outsideManager>>

\* AsyncQueue.executeAll: pollAll() empties the list, then every closure runs
ExecuteAll ==
    /\ Len(opCalls) < MaxDrains
    /\ \E q \in {RunOperations(operations, 1,
                    [ops |-> opQueued, promises |-> promises, called |-> <<>>,
                     drain |-> Len(opCalls) + 1])} :
          /\ operations' = <<>>
          /\ opQueued' = q.ops
          /\ promises' = q.promises
          /\ opCalls' = Append(opCalls, q.called)
    /\ UNCHANGED <<busVars, permissionVars, serviceVars, outsideManager>>

NextQueue == Queue \/ ExecuteAll

SpecQueue == InitQueue /\ [][NextQueue]_vars

-----------------------------------------------------------------------------
(* the input line as the user typed it: its tokens and where each starts *)

RECURSIVE Tokens(_)
Tokens(s) ==
    IF s = <<>> THEN <<>>
    ELSE IF Head(s) = " " THEN Tokens(Tail(s))
    ELSE LET n == IF \E k \in 1..Len(s) : s[k] = " "
                  THEN (CHOOSE k \in 1..Len(s) : s[k] = " " /\ \A j \in 1..(k - 1) : s[j] # " ") - 1
                  ELSE Len(s)
         IN  <<SubSeq(s, 1, n)>> \o Tokens(SubSeq(s, n + 1, Len(s)))

\* 0-based position of the first character of token k of a line whose
\* tokens are separated by single spaces
RECURSIVE TokenStart(_, _)
TokenStart(ts, k) == IF k = 1 THEN 0 ELSE TokenStart(ts, k - 1) + Len(ts[k - 1]) + 1

IsFlagToken(t) == t # <<>> /\ t[1] = "-"

IsNumberToken(t) == t # <<>> /\ \A i \in 1..Len(t) : t[i] \in Digits

\* the token the cursor i stands before
NextToken(s, i) == Collect(s, SkipWhitespace(s, i), UNTIL_SPACE).text

\* both assertions of the root node were tested and passed
RootAssertionsPassed ==
    /\ Len(tested) >= 2
    /\ tested[1].outcome = "pass"
    /\ tested[2].outcome = "pass"

\* the run of flags of the root node that starts at token i: the index of the
\* first token after it, a switch taking one token and a valued flag two
RECURSIVE FlagRunEnd(_, _)
FlagRunEnd(ts, i) ==
    IF i > Len(ts) THEN i
    ELSE IF ts[i] = <<"-", "a">> THEN FlagRunEnd(ts, i + 1)
    ELSE IF ts[i] = <<"-", "b">> /\ i + 1 <= Len(ts) /\ IsNumberToken(ts[i + 1])
    THEN FlagRunEnd(ts, i + 2)
    ELSE i

\* the flag values that run stands for
FlagRunValues(ts, i) ==
    {<<"a", Value("boolean", 1)>> : k \in {k \in i..(FlagRunEnd(ts, i) - 1) : ts[k] = <<"-", "a">>}}
    \cup {<<"b", Value("number", DigitsValue(ts[k + 1], 0))>> :
            k \in {k \in i..(FlagRunEnd(ts, i) - 2) :
                     ts[k] = <<"-", "b">> /\ IsNumberToken(ts[k + 1])
                     /\ (k = i \/ ts[k - 1] # <<"-", "b">> \/ FlagRunEnd(ts, k) > k)}}

\* the pending results that settled as failed
FailedPending ==
    {i \in 1..Len(awaitableResults) :
        LET r == heap[awaitableResults[i]] IN
        r.promise = "fulfilled" /\ (r.error # None \/ r.uncaughtError # None)}

-----------------------------------------------------------------------------
(* Claims *)

\* C1: whatever parsers, assertions and executors do (throwing, or returning
\* a promise that rejects), the promise dispatch returns never rejects.
C1_DispatchNeverRejects == returned.state # "rejected"

\* C2: when an executor was captured and a pending argument or flag result
\* settles as failed (parse error or uncaught error), the executor is not
\* invoked and the result is a MultiFailResult with one leaf per failed
\* pending result.
C2_FailedPendingAborts ==
    (/\ pc = "done"
     /\ executor # NoNode
     /\ PromiseAll(heap, awaitableResults) = "fulfilled"
     /\ FailedPending # {})
    => /\ invoked = <<>>
       /\ returned.state = "resolved"
       /\ returned.value.kind = "MultiFail"
       /\ Len(unwrap(returned.value)) = Cardinality(FailedPending)

\* C3: the executor is invoked at most once and only after every pending
\* result registered during the dispatch has settled, in whatever order they
\* settle; at that moment every ParseResult is completed.
C3_ExecutorAfterAllSettled ==
    /\ Len(invoked) <= 1
    /\ \A i \in 1..Len(invoked) :
         /\ invoked[i].pending = 0
         /\ invoked[i].completed
    /\ invoked # <<>> =>
         \A h \in 1..Len(heap) : heap[h].promise # "pending" /\ heap[h].completed

\* two pending results settled, the later registered one first, and the
\* executor was then invoked
C3_Witness ==
    /\ Len(invoked) = 1
    /\ Len(settleLog) = 2
    /\ settleLog[1] > settleLog[2]

\* C4: every flag of the run of flags after the node's token is parsed and
\* recorded in flagResults, in whatever order: a switch records true, a valued
\* flag the value parsed from the token after it (cmd -a -b 5: a = true, b = 5).
C4_EveryFlagRecorded ==
    (Len(entered) >= 1 /\ RootAssertionsPassed) =>
        \A fv \in FlagRunValues(Tokens(str), 2) :
            /\ flagResults[fv[1]] # 0
            /\ heap[flagResults[fv[1]]].value = fv[2]

\* C5: a flag whose name no processed node registered makes dispatch fail
\* with an error of kind UNKNOWN_FLAG whose span is exactly the flag name,
\* and no executor is invoked. Stated for the first token after the run of
\* registered flags of the root node.
C5_UnknownFlagReported ==
    LET ts == Tokens(str)
        k  == FlagRunEnd(ts, 2)
    IN  (/\ Len(entered) >= 1
         /\ RootAssertionsPassed
         /\ k <= Len(ts)
         /\ ts[k] = <<"-", "u", "s">>)
        => /\ pc = "done"
           /\ invoked = <<>>
           /\ returned.state = "resolved"
           /\ \E i \in 1..Len(returned.value.errors) :
                LET e == returned.value.errors[i] IN
                /\ e.cls = "CommandError"
                /\ e.type = "UNKNOWN_FLAG"
                /\ e.start = TokenStart(ts, k) + 1
                /\ e.end = TokenStart(ts, k) + Len(ts[k]) - 1

\* C6: when the next whitespace-delimited token is the name of a literal
\* child, findNext selects that literal child, whatever the order of the
\* children; an argument child is selected only when no literal child has
\* that name.
C6_LiteralPrecedence ==
    \A i \in 1..Len(selections) :
        LET sel  == selections[i]
            tok  == NextToken(str, sel.idx)
            kids == NodeChildren(sel.node)
            lits == {kids[j] : j \in {j \in 1..Len(kids) :
                        NodeLiteral(kids[j]) /\ NodeName(kids[j]) = tok}}
        IN  /\ lits # {} => sel.chosen \in lits
            /\ (sel.chosen # NoNode /\ ~NodeLiteral(sel.chosen)) => lits = {}


\* C7: the assertions of each processed node are tested in registration
\* order, with the cursor still at the start of the node's token; the first
\* failing one ends the dispatch with an AssertionFailedResult carrying its
\* message, no later assertion is tested and no executor is invoked.
C7_AssertionsFailFast ==
    \A i \in 1..Len(tested) :
        LET t == tested[i]
            k == Cardinality({j \in 1..i : tested[j].node = t.node})
        IN  /\ k <= Len(NodeAssertions(t.node))
            /\ t.assertion = NodeAssertions(t.node)[k]
            /\ \E j \in 1..Len(entered) : entered[j] = [node |-> t.node, idx |-> t.idx]
            /\ t.node = CmdNode => t.idx = 0
            /\ t.outcome = "fail" =>
                 /\ i = Len(tested)
                 /\ pc = "done"
                 /\ returned = Resolved(AssertionFailedResult(t.assertion))
                 /\ invoked = <<>>

\* the assertion of a deeper node failed after a shallower node's executor
\* had been captured
C7_Witness ==
    /\ tested # <<>>
    /\ tested[Len(tested)].outcome = "fail"
    /\ tested[Len(tested)].node # CmdNode
    /\ executor # NoNode
    /\ returned.value.kind = "AssertionFailed"

\* C8: when no child is selected and non-whitespace input remains, dispatch
\* returns the FailResult "No subcommand by name" with the next
\* whitespace-delimited token, and no executor is invoked, also when a
\* shallower node's executor had been captured.
C8_NoSubcommandFails ==
    \A i \in 1..Len(selections) :
        LET sel == selections[i] IN
        (sel.chosen = NoNode /\ At(str, SkipWhitespace(str, sel.idx)) # EOS) =>
            /\ i = Len(selections)
            /\ pc = "done"
            /\ returned = Resolved(FailResult("No subcommand by name",
                                              NextToken(str, sel.idx)))
            /\ invoked = <<>>

\* no child was selected, input remained and an executor had been captured
C8_Witness ==
    /\ selections # <<>>
    /\ selections[Len(selections)].chosen = NoNode
    /\ At(str, SkipWhitespace(str, selections[Len(selections)].idx)) # EOS
    /\ executor # NoNode
    /\ pc = "done"

\* the walk of the tokens from token k on through the literal children of
\* node n: 0 when every token names a literal child, -1 when an argument
\* child is reached, and else the index of the first token that names no child
RECURSIVE LiteralWalk(_, _, _)
LiteralWalk(n, ts, k) ==
    LET kids == NodeChildren(n)
        lits == {kids[j] : j \in {j \in 1..Len(kids) :
                    NodeLiteral(kids[j]) /\ NodeName(kids[j]) = ts[k]}}
    IN  IF k > Len(ts) THEN 0
        ELSE IF lits # {} THEN LiteralWalk(CHOOSE l \in lits : TRUE, ts, k + 1)
        ELSE IF \E j \in 1..Len(kids) : ~NodeLiteral(kids[j]) THEN -1
        ELSE k

\* the command resolves, its assertions pass and no token up to token k is a flag
PlainTokens(ts, k) ==
    /\ ToLowerCase(ts[1]) = NodeName(CmdNode)
    /\ RootAssertionsPassed
    /\ \A j \in 2..k : j <= Len(ts) => ~IsFlagToken(ts[j])

\* C9 as stated: every input line that ends before an argument node is
\* reached yields a fail result naming an unresolved token (here: whenever no
\* assertion and no flag stood in the way).
C9_AlwaysFailsBeforeArgument ==
    (/\ pc = "done"
     /\ \A j \in 1..Len(entered) : NodeLiteral(entered[j].node)
     /\ \A j \in 1..Len(tested) : tested[j].outcome = "pass"
     /\ \A j \in 1..Len(Tokens(str)) : ~IsFlagToken(Tokens(str)[j])) =>
        /\ returned.state = "resolved"
        /\ returned.value.kind = "Fail"
        /\ returned.value.token # <<>>

\* C9 amended: when, before any argument node or flag is reached, a token
\* names no child of the node reached, dispatch returns the FailResult
\* "No subcommand by name" naming exactly that token and invokes no executor;
\* a line whose tokens all name literal nodes does not fail: it yields the
\* no-executor result, or invokes the captured executor.
C9_UnresolvedTokenNamed ==
    LET ts == Tokens(str)
        k  == LiteralWalk(CmdNode, ts, 2)
    IN  /\ (k > 0 /\ PlainTokens(ts, k) /\ Len(entered) >= k - 1) =>
              /\ pc = "done"
              /\ returned = Resolved(FailResult("No subcommand by name", ts[k]))
              /\ invoked = <<>>
        /\ (k = 0 /\ PlainTokens(ts, Len(ts)) /\ pc = "done") =>
              /\ returned.state = "resolved" =>
                    returned.value.msg # "No subcommand by name"
              /\ executor = NoNode => returned = Resolved(noExecutor)
              /\ executor # NoNode => Len(invoked) = 1

\* only literal nodes were processed and a token that names no child was reported
C9_Witness ==
    /\ pc = "done"
    /\ Len(entered) = 2
    /\ \A j \in 1..Len(entered) : NodeLiteral(entered[j].node)
    /\ returned.value.msg = "No subcommand by name"
    /\ LiteralWalk(CmdNode, Tokens(str), 2) = 3

\* C10: when the lowercased leading token is no key of the command map,
\* dispatch returns a FailResult naming that token; the lookup leaves the
\* reader where it was and no assertion, parser or executor is run.
C10_UnknownCommandFails ==
    LET name == ToLowerCase(Tokens(str)[1]) IN
    /\ (name \notin DOMAIN commandMap /\ pc # "start") =>
          /\ pc = "done"
          /\ returned = Resolved(FailResult("No command by name", name))
          /\ idx = 0
          /\ ist = <<>>
          /\ tested = <<>>
          /\ entered = <<>>
          /\ heap = <<>>
          /\ invoked = <<>>
    /\ (pc = "loop" /\ entered = <<>>) => (idx = 0 /\ ist = <<>>)

\* an unknown command typed with an upper-case letter was refused
C10_Witness ==
    /\ pc = "done"
    /\ str[1] = "N"
    /\ returned.value.msg = "No command by name"

-----------------------------------------------------------------------------
(* C11: an executor registered through CommandBuilder.executes runs inside   *)
(* an error boundary: when it throws a FailError the command result is a     *)
(* FailResult carrying that error's message, with trace = false; when it     *)
(* throws anything else the result is an UncaughtErrorResult with trace =    *)
(* true whose errors contain the original error.                             *)
C11_ExecutorErrorBoundary ==
    \A i \in 1..Len(invoked) :
      LET b == invoked[i].behaviour
          e == ExecutorError(b)
      IN  /\ b \in {"throwFail", "rejectFail"} =>
               /\ returned.state = "resolved"
               /\ returned.value.kind = "Fail"
               /\ returned.value.msg = e.type
               /\ ~returned.value.trace
          /\ b \in {"throw", "reject"} =>
               /\ returned.state = "resolved"
               /\ returned.value.kind = "UncaughtError"
               /\ returned.value.trace
               /\ \E k \in 1..Len(returned.value.errors) : returned.value.errors[k] = e

-----------------------------------------------------------------------------
(* C12: when the parser of an argument node, or of a valued flag, fails      *)
(* synchronously, dispatch stops at that node: it returns a                  *)
(* ParseErrorsResult when the parser raised a ParseError and an              *)
(* UncaughtErrorResult when it raised any other exception; the failed result *)
(* is not recorded, no further node is traversed and no executor is invoked. *)
FailedSynchronously(res) == res.error # None \/ res.uncaughtError # None

C12_SyncParseFailureStops ==
    \A k \in 1..Len(parseLog) :
      LET call == parseLog[k] IN
      FailedSynchronously(call.res) =>
        /\ k = Len(parseLog)
        /\ pc = "done"
        /\ returned.state = "resolved"
        /\ call.res.error # None =>
              /\ returned.value.kind = "ParseErrors"
              /\ returned.value.errors = call.res.error
        /\ call.res.error = None =>
              /\ returned.value.kind = "UncaughtError"
              /\ returned.value.errors = call.res.uncaughtError
        /\ \A h \in 1..Len(heap) : ~FailedSynchronously(heap[h])
        /\ call.kind = "argument" =>
              /\ argResults[call.name] = 0
              /\ NodeName(entered[Len(entered)].node) = call.name
        /\ call.kind = "flag" =>
              \A f \in Flags : FlagName(f) = call.name => flagResults[f] = 0
        /\ call.idx >= entered[Len(entered)].idx
        /\ selections = <<>> \/ selections[Len(selections)].chosen = entered[Len(entered)].node
        /\ invoked = <<>>

\* the parser of the second argument fails after the executor of the first
\* argument was captured
C12_Witness ==
    /\ parseLog # <<>>
    /\ parseLog[Len(parseLog)].res.error # None
    /\ parseLog[Len(parseLog)].kind = "argument"
    /\ executor # NoNode
    /\ returned.state = "resolved"
    /\ returned.value.kind = "ParseErrors"

-----------------------------------------------------------------------------
(* C13: the executor invoked at the end of a successful traversal is the     *)
(* executor of the deepest processed node on the traversed path that         *)
(* declares one: an executor declared by a deeper node that was reached      *)
(* replaces the one captured from a shallower node.                          *)
\* the processed nodes (the nodes whose loop body ran) that declare an executor
ProcessedExecutors == SelectSeq(entered, LAMBDA e : NodeHasExecutor(e.node))

C13_DeepestExecutorRuns ==
    \A i \in 1..Len(invoked) :
      /\ ProcessedExecutors # <<>>
      /\ invoked[i].node = ProcessedExecutors[Len(ProcessedExecutors)].node

\* both arguments were processed, each declares an executor, the one of the
\* second was invoked
C13_Witness ==
    /\ Len(ProcessedExecutors) >= 2
    /\ invoked # <<>>
    /\ invoked[1].node = ProcessedExecutors[2].node
    /\ invoked[1].node # ProcessedExecutors[1].node

-----------------------------------------------------------------------------
(* C14: for a MultiFailResult built from any list of fail-like results,      *)
(* nested MultiFailResults included, errors is the concatenation, in order,  *)
(* of the sub-results' errors, trace is false, and unwrap() returns exactly  *)
(* the non-multi leaf results in order; for every non-multi result unwrap()  *)
(* returns the one-element list of the result itself.                        *)
\* the errors of the first k results of rs, one result after the other
RECURSIVE ErrorsInOrder(_, _)
ErrorsInOrder(rs, k) ==
    IF k = 0 THEN <<>> ELSE ErrorsInOrder(rs, k - 1) \o rs[k].errors

\* the results of rs that are not MultiFailResults, nested ones in place
RECURSIVE LeafResults(_, _)
LeafResults(rs, k) ==
    IF k = 0 THEN <<>>
    ELSE LeafResults(rs, k - 1) \o
         (IF rs[k].kind = "MultiFail"
          THEN LeafResults(rs[k].results, Len(rs[k].results))
          ELSE <<rs[k]>>)

C14_MultiFailAggregates ==
    /\ multi # NoResult =>
         /\ multi.errors = ErrorsInOrder(subResults, Len(subResults))
         /\ ~multi.trace
    /\ \A i \in 1..Len(unwrapped) :
         LET call == unwrapped[i] IN
         IF call.of.kind = "MultiFail"
         THEN call.got = LeafResults(call.of.results, Len(call.of.results))
         ELSE call.got = <<call.of>>

\* a MultiFailResult built from a nested MultiFailResult with two leaves and
\* a leaf with an error of its own was unwrapped
C14_Witness ==
    /\ Len(subResults) = 2
    /\ subResults[1].kind = "MultiFail"
    /\ Len(subResults[1].results) = 2
    /\ subResults[2].kind = "UncaughtError"
    /\ Len(multi.errors) >= 2
    /\ unwrapped # <<>>
    /\ unwrapped[1].of = multi
    /\ Len(unwrapped[1].got) = 3

-----------------------------------------------------------------------------
(* C15: the rendered description of a success, fail or uncaught-error result *)
(* whose message has one line contains that line; when the message has two   *)
(* or more lines it contains the first line and the second line of the       *)
(* message, in order, and no later line.                                     *)
\* piece occurs in text at position i
OccursAt(text, piece, i) ==
    /\ i >= 1
    /\ i + Len(piece) - 1 <= Len(text)
    /\ \A k \in 1..Len(piece) : text[i + k - 1] = piece[k]

C15_RendersFirstTwoLines ==
    rendered.desc # None =>
      LET desc  == rendered.desc[1]
          lines == Split(rendered.message, "\n")
      IN  IF Len(lines) = 1
          THEN \E i \in 1..(Len(desc) + 1) : OccursAt(desc, lines[1], i)
          ELSE \E i, j \in 1..(Len(desc) + 1) :
                 /\ OccursAt(desc, lines[1], i)
                 /\ i + Len(lines[1]) <= j
                 /\ OccursAt(desc, lines[2], j)
                 /\ j + Len(lines[2]) - 1 = Len(desc)

-----------------------------------------------------------------------------
(* C16: after any sequence of StringReader operations (next(n), back(n),     *)
(* collect, expect, skipWhitespace, pushIndex, restore) with any step sizes  *)
(* n >= 1, the cursor satisfies 0 <= position <= length: next and back clamp *)
(* at the two ends, and current() returns the EOS sentinel whenever the      *)
(* cursor is at or past the end.                                             *)
C16_CursorInBounds ==
    /\ 0 <= idx
    /\ idx <= Len(str)
    /\ idx >= Len(str) => At(str, idx) = EOS

-----------------------------------------------------------------------------
(* C17: Parsers.String applied at a cursor standing on a quote character     *)
(* yields the characters between that quote and the next occurrence of the   *)
(* same quote, spaces included, and leaves the cursor just past the closing  *)
(* quote; applied at any other character it yields the characters up to,     *)
(* not including, the next space.                                            *)
\* the first position after from (1-based) where text holds c, 0 when none
RECURSIVE FirstAfter(_, _, _)
FirstAfter(text, c, from) ==
    IF from >= Len(text) THEN 0
    ELSE IF text[from + 1] = c THEN from + 1
    ELSE FirstAfter(text, c, from + 1)

C17_StringParser ==
    \A k \in 1..Len(parsed) :
      LET call  == parsed[k]
          open  == call.at + 1
      IN  (call.parser = "String" /\ open <= Len(call.input)) =>
            IF call.input[open] \in Quotes
            THEN LET close == FirstAfter(call.input, call.input[open], open) IN
                 close # 0 =>
                   /\ call.res.value.text = SubSeq(call.input, open + 1, close - 1)
                   /\ call.idx = close
            ELSE LET space == FirstAfter(call.input, " ", open - 1)
                     stop  == IF space = 0 THEN Len(call.input) + 1 ELSE space
                 IN  call.res.value.text = SubSeq(call.input, open, stop - 1)

-----------------------------------------------------------------------------
(* C18: for every valid duration string s made of <number><unit> pairs with  *)
(* units from the table, parsing the text Parsers.Duration.emit produces for *)
(* the parsed value gives the same number of milliseconds, with no parse     *)
(* error: parse(emit(parse(s).value)).value = parse(s).value.                *)
\* s, from position k on, is a run of <number><unit> pairs; inNumber and
\* inUnit tell what the character before k belongs to
RECURSIVE DurationPairs(_, _, _, _)
DurationPairs(s, k, inNumber, unit) ==
    IF k > Len(s) THEN unit \in UnitNames
    ELSE IF s[k] \in Digits
    THEN (unit = <<>> \/ unit \in UnitNames) /\ (inNumber \/ unit # <<>> \/ k = 1)
         /\ DurationPairs(s, k + 1, TRUE, <<>>)
    ELSE (inNumber \/ unit # <<>>) /\ s[k] # " "
         /\ DurationPairs(s, k + 1, FALSE, Append(unit, s[k]))

ValidDuration(s) == s # <<>> /\ DurationPairs(s, 1, FALSE, <<>>)

C18_DurationRoundTrip ==
    (/\ Len(parsed) = 3
     /\ parsed[1].parser = "Duration"
     /\ ValidDuration(parsed[1].input)) =>
        /\ parsed[3].res.error = None
        /\ parsed[3].res.value = parsed[1].res.value

-----------------------------------------------------------------------------
(* C19: Interaction.trigger evaluates the conditions in registration order   *)
(* and stops at the first one that returns false: no later condition is      *)
(* checked and no action is executed; when every condition returns true,     *)
(* every action is executed exactly once, in registration order, each one    *)
(* after the previous one has returned.                                      *)
\* the calls of the trigger() call that starts at position p of calls: up to
\* the next trigger() call
RECURSIVE CallsOf(_, _)
CallsOf(calls, p) ==
    IF p >= Len(calls) \/ calls[p + 1].op \in {"trigger", "event"} THEN <<>>
    ELSE <<calls[p + 1]>> \o CallsOf(calls, p + 1)

\* what C19 says of one trigger() call of interaction i, given its calls
TriggerInOrder(i, calls) ==
    LET conditions == objects[i].conditions
        actions    == objects[i].actions
        checks     == SelectSeq(calls, LAMBDA c : c.op = "check")
        runs       == SelectSeq(calls, LAMBDA c : c.op \in {"execute", "returned"})
        failed     == \E j \in 1..Len(checks) : ~checks[j].result
    IN  /\ Len(checks) <= Len(conditions)
        /\ \A j \in 1..Len(checks) :
              /\ checks[j].n = conditions[j]
              /\ calls[j] = checks[j]
              /\ ~checks[j].result => j = Len(checks)
        /\ failed => runs = <<>>
        /\ ~failed =>
              /\ Len(checks) = Len(conditions)
              /\ Len(runs) = 2 * Len(actions)
              /\ \A j \in 1..Len(actions) :
                    /\ runs[2 * j - 1] = Call("execute", i, actions[j], TRUE)
                    /\ runs[2 * j] = Call("returned", i, actions[j], TRUE)

-----------------------------------------------------------------------------
(* C20: for an interaction built with                                        *)
(* when(T).onlyIf(C1).onlyIf(C2).then(A1).once().create(), a firing in which *)
(* a condition fails leaves the interaction registered (still in the         *)
(* registry, trigger still subscribed) and does not invoke A1; the first     *)
(* firing in which both conditions pass invokes A1 exactly once and destroys *)
(* the interaction, so that afterwards it is absent from both interactions   *)
(* and interactionsByName and T.unregister has been called exactly once.     *)
\* interaction i is as that chain of calls leaves it
BuiltOnce(i) ==
    /\ objects[i].made
    /\ objects[i].triggers
    /\ objects[i].conditions = <<1, 2>>
    /\ objects[i].actions = <<1>>
    /\ objects[i].lifetime = "once"
    /\ objects[i].name = NoName
    /\ interactions[objects[i].id] = i
    /\ listeners = <<i>>

-----------------------------------------------------------------------------
(* C21: Interaction.trigger hands every condition, every action and the      *)
(* lifetime a defined InteractionContext: a new one around the raw event     *)
(* arguments when it is called with those, the very context it was called    *)
(* with when that is already an InteractionContext.                          *)
C21_ContextAlwaysDefined ==
    \A p \in 1..Len(callLog) :
      callLog[p].op = "trigger" => callLog[p].result

-----------------------------------------------------------------------------
(* C22: after any sequence of builder(), named(name), persist(name),         *)
(* register() and create() calls, every interaction that is in the           *)
(* manager's interactions map and has a name is the value of                 *)
(* interactionsByName under that name (so that remove(name) finds it).       *)
C22_NamedInteractionsIndexed ==
    \A i \in InteractionRefs :
      (objects[i].made /\ interactions[objects[i].id] = i /\ objects[i].name # NoName)
        => interactionsByName[objects[i].name] = i

-----------------------------------------------------------------------------
(* C23: any two interactions allocated by InteractionManager.builder() in    *)
(* one process have different ids, also when both calls happen in the same   *)
(* clock millisecond: builder() never replaces an interaction already in the *)
(* interactions map.                                                         *)
C23_BuilderIdsUnique ==
    \A i, j \in InteractionRefs :
      (i # j /\ objects[i].made /\ objects[j].made) => objects[i].id # objects[j].id

-----------------------------------------------------------------------------
(* C24: create() on an interaction whose trigger was never set by when()     *)
(* throws, and when(undefined) throws: no interaction without a trigger is   *)
(* ever subscribed, and a call that would do it ends in an exception.        *)
C24_NoTriggerFailsFast ==
    [][/\ \A k \in 1..Len(listeners') : objects'[listeners'[k]].triggers
       /\ thrown'.op \in {"create", "when"} =>
             /\ UNCHANGED <<objects, listeners, interactions, interactionsByName>>
             /\ thrown'.op = "create" => ~objects[thrown'.ref].triggers]_vars

\* create() was called on an interaction that when() gave no trigger, and
\* threw
C24_Witness ==
    /\ thrown = Thrown("create", "i1", "TypeError")
    /\ objects["i1"].made
    /\ ~objects["i1"].triggers
    /\ listeners = <<>>

-----------------------------------------------------------------------------
(* C28: on each platform event, every interaction that is registered on the  *)
(* trigger when the event arrives is triggered exactly once, also when an    *)
(* interaction earlier in the fan-out destroys itself or another one while   *)
(* the fan-out is running.                                                   *)
\* no interaction is subscribed twice
EachOnce(list) == \A k, l \in 1..Len(list) : list[k] = list[l] => k = l

C28_FanOutReachesEveryListener ==
    [][(callLog' # callLog /\ callLog'[1].op = "event" /\ EachOnce(listeners)) =>
         \A k \in 1..Len(listeners) :
           Len(CallsOn(callLog', "trigger", listeners[k])) = 1]_vars

-----------------------------------------------------------------------------
(* C29: in warnedConfirmMessage, when the confirmation interaction fires     *)
(* before the 10 second timeout, the timeout is cancelled or has no effect:  *)
(* over the whole run the completion callback is invoked exactly once and    *)
(* the interaction is destroyed (its trigger unregistered) exactly once, in  *)
(* every interleaving of the reaction event and the timer.                   *)
C29_ConfirmCompletesOnce ==
    \A i \in DOMAIN confirm :
      confirm[i].confirmed >= 1 =>
        /\ confirm[i].confirmed + confirm[i].expired = 1
        /\ confirm[i].unregistered = 1

\* every component of the list is a registry-known base component or one of
\* the parameterized classes, at every depth
RECURSIVE KnownComponent(_)
KnownComponent(c) ==
    /\ c.kind \in {"simple", "param", "inverted", "orList", "triggerList"}
    /\ \A p \in 1..Len(c.parts) : KnownComponent(c.parts[p])

\* C25: deserializeInteraction(serializeInteraction(i)) of an interaction
\* built from registry-known base components and parameterized components
\* returns an interaction with the id and name of i and with the trigger,
\* conditions and actions of i: the same keys in the same order, and equal
\* parameters.
C25_RoundTrip ==
    ( /\ serialOut.op = "roundTrip"
      /\ KnownComponent(source.triggers)
      /\ \A p \in 1..Len(source.conditions) : KnownComponent(source.conditions[p])
      /\ \A p \in 1..Len(source.actions) : KnownComponent(source.actions[p]) )
    => /\ ~serialOut.threw
       /\ Len(serialOut.restored) = 1
       /\ serialOut.restored[1].id = source.id
       /\ serialOut.restored[1].name = source.name
       /\ serialOut.restored[1].triggers = source.triggers
       /\ serialOut.restored[1].conditions = source.conditions
       /\ serialOut.restored[1].actions = source.actions

\* the entry names a component key that is not in the registry
UnknownIn(entry) ==
    \/ GetBaseComponent(entry.trigger.key).kind = "undefined"
    \/ \E p \in 1..Len(entry.conditions) :
         GetBaseComponent(entry.conditions[p].key).kind = "undefined"
    \/ \E p \in 1..Len(entry.actions) :
         GetBaseComponent(entry.actions[p].key).kind = "undefined"

\* the ids of the entries of the list that name known components only
KnownIds(list) ==
    LET known == SelectSeq(list, LAMBDA entry : ~UnknownIn(entry))
    IN  [p \in 1..Len(known) |-> known[p].id]

\* C26: loadAllPersistentData of a list with exactly one entry that names an
\* unknown component key does not throw, and it registers and create()s every
\* other entry of the list, in order.
C26_LoadSkipsUnknownEntry ==
    ( /\ serialOut.op = "load"
      /\ Cardinality({k \in 1..Len(persisted) : UnknownIn(persisted[k])}) = 1 )
    => /\ ~serialOut.threw
       /\ serialOut.created = KnownIds(persisted)
       /\ [p \in 1..Len(serialOut.restored) |-> serialOut.restored[p].id]
             = KnownIds(persisted)

\* the component, or one inside it, has isSerializable() = false
RECURSIVE HasClosure(_)
HasClosure(c) ==
    \/ c.kind = "closure"
    \/ \E p \in 1..Len(c.parts) : HasClosure(c.parts[p])

\* the saved component, or one inside it, is the marker
RECURSIVE HasMarker(_)
HasMarker(data) ==
    \/ data = ErrUnserializable
    \/ \E p \in 1..Len(data.parts) : HasMarker(data.parts[p])

\* C27: when saveAllPersistentData has written a persistent interaction with
\* a component that is not serializable, the written object holds the marker
\* and at least one warning was logged.
C27_UnserializableIsWarned ==
    ( /\ serialOut.op = "save"
      /\ source.persistent
      /\ \/ HasClosure(source.triggers)
         \/ \E p \in 1..Len(source.conditions) : HasClosure(source.conditions[p])
         \/ \E p \in 1..Len(source.actions) : HasClosure(source.actions[p])
      /\ serialOut.data # <<>> )
    => /\ \/ HasMarker(serialOut.data[1].trigger)
          \/ \E p \in 1..Len(serialOut.data[1].conditions) :
               HasMarker(serialOut.data[1].conditions[p])
          \/ \E p \in 1..Len(serialOut.data[1].actions) :
               HasMarker(serialOut.data[1].actions[p])
       /\ serialOut.warnings >= 1

\* C30: T1.or(T2) does not throw and returns a trigger list whose list holds
\* T2 and T1 (the triggers of T1 when T1 is a list itself), so that register
\* and unregister reach both.
C30_OrComposesBoth ==
    serialOut.op = "or"
    => /\ ~serialOut.threw
       /\ Len(serialOut.composed) = 1
       /\ serialOut.composed[1].kind = "triggerList"
       /\ serialOut.composed[1].hasList
       /\ \E p \in 1..Len(serialOut.composed[1].parts) :
            serialOut.composed[1].parts[p] \in BaseTriggers
       /\ \/ \E p \in 1..Len(serialOut.composed[1].parts) :
               serialOut.composed[1].parts[p] = source.triggers
          \/ /\ source.triggers.kind = "triggerList"
             /\ \A q \in 1..Len(source.triggers.parts) :
                  \E p \in 1..Len(serialOut.composed[1].parts) :
                    serialOut.composed[1].parts[p] = source.triggers.parts[q]

-----------------------------------------------------------------------------
(* C38: an interaction on which neither once() nor persist() was called is   *)
(* destroyed by its first firing in which every condition passes: without a  *)
(* lifetime being asked, it is unregistered from its trigger once and        *)
(* removed from interactions and from interactionsByName under its name.     *)
\* the number of subscriptions of interaction i
Subscriptions(list, i) == Cardinality({k \in 1..Len(list) : list[k] = i})

-----------------------------------------------------------------------------
(* C35: unregister(interaction) on an event trigger for an interaction that  *)
(* is not registered on it, as in a second destroy(), leaves the listener    *)
(* list of the trigger unchanged.                                            *)
C35_UnregisterAbsentKeepsListeners ==
    [][\A i \in DOMAIN confirm :
         ( /\ confirm'[i].expired # confirm[i].expired
           /\ Subscriptions(listeners, i) = 0 )
         => listeners' = listeners]_vars

-----------------------------------------------------------------------------
(* C37: every value stored in interactionsByName is an interaction that is   *)
(* also stored in interactions under its id, after any sequence of builder,  *)
(* register, named, destroy and remove calls; stated for interactions that   *)
(* were given different ids.                                                 *)
C37_NamedEntriesAreRegistered ==
    (\A i, j \in InteractionRefs :
        (objects[i].made /\ objects[j].made /\ objects[i].id = objects[j].id) => i = j)
    => \A n \in Names :
         interactionsByName[n] # NoRef =>
           interactions[objects[interactionsByName[n]].id] = interactionsByName[n]

-----------------------------------------------------------------------------
(* C36: dispatch keeps the checkpoint stack of the reader balanced: every    *)
(* step of a dispatch leaves the saved-position stack as deep as it found    *)
(* it, and the literal tests of findNext leave the cursor where it was, so   *)
(* that after findNext the cursor is behind the whitespace that followed it  *)
(* (and behind the next token when no node was selected and input remains).  *)
C36_CheckpointsBalanced ==
    [][/\ ist' = ist
       /\ Len(selections') > Len(selections) =>
            LET last == selections'[Len(selections')]
                skipped == SkipWhitespace(str, last.idx)
            IN  idx' = IF last.chosen # NoNode \/ At(str, skipped) = EOS
                       THEN skipped
                       ELSE Collect(str, skipped, UNTIL_SPACE).idx]_vars

\* a dispatch is over in which findNext tested a literal child that did not
\* match before it selected another literal child
C36_Witness ==
    /\ pc = "done"
    /\ ist = <<>>
    /\ \E k \in 1..Len(selections) :
         /\ selections[k].node = CmdNode
         /\ NodeLiteral(order[1])
         /\ NodeLiteral(selections[k].chosen)
         /\ selections[k].chosen # order[1]

-----------------------------------------------------------------------------
(* C31: inside an executor, ctx.arg(name) is present with the parsed value   *)
(* when the argument was given in the input; otherwise it is present with    *)
(* the value of the default supplier when the argument node declares one;    *)
(* otherwise it is empty, and require() yields a FailResult naming the       *)
(* argument.                                                                 *)
C31_ArgOrDefault ==
    \A i \in 1..Len(invoked) :
      \A n \in Nodes :
        ~NodeLiteral(n) =>
          LET arg == invoked[i].args[NodeName(n)] IN
          IF argResults[NodeName(n)] # 0
          THEN arg = OptionalPresent(heap[argResults[NodeName(n)]].value)
          ELSE IF NodeDefaultSupplier(n) # "undefined"
          THEN arg.present
          ELSE arg = OptionalRequired(NodeName(n))

-----------------------------------------------------------------------------
(* C32: after any sequence of EventBus.register calls the listener list of   *)
(* each event is sorted by priority, and publishing an event invokes its     *)
(* listeners in non-decreasing priority order, each exactly once.            *)
SortedByPriority(list) ==
    \A i, j \in 1 .. Len(list) : i < j => list[i].priority <= list[j].priority

C32_ListenersSortedByPriority ==
    /\ \A e \in DOMAIN busListeners : SortedByPriority(busListeners[e])
    /\ handled # <<>> =>
          /\ SortedByPriority(handled.listeners)
          /\ \A l \in Registered :
                l.event = handled.event =>
                   Cardinality({i \in 1 .. Len(handled.listeners) :
                                   handled.listeners[i] = l}) = 1

-----------------------------------------------------------------------------
(* C33: when no node on or above the checked path has a permit other than    *)
(* NONE, check(path, def) on a PermissionNode, a PermissionObject or a       *)
(* GroupBasedPermissible returns def, for every path and every default, and  *)
(* does not throw.                                                           *)
\* the names of a path, without its wildcards
RECURSIVE PathNames(_)
PathNames(path) ==
    IF path = <<>> THEN <<>>
    ELSE IF path[1] = "*" THEN PathNames(Tail(path))
    ELSE <<path[1]>> \o PathNames(Tail(path))

\* the nodes of the tree on or above the path
OnPath(tree, path) ==
    {n \in DOMAIN tree :
        /\ Len(n) <= Len(PathNames(path))
        /\ n = SubSeq(PathNames(path), 1, Len(n))}

UnsetOnPath(tree, path) == \A n \in OnPath(tree, path) : tree[n] = Permit.NONE

C33_UnsetPathGivesDefault ==
    (checkLog # <<>> /\ UnsetOnPath(baseNode, checkLog.path)) =>
        \A target \in CheckTargets, def \in Permits :
            checkLog.results[target][def] = CheckReturned(def)

\* a path whose nodes exist and are all NONE was checked, while a node below
\* the path is set
C33_Witness ==
    /\ checkLog # <<>>
    /\ checkLog.path = <<"a">>
    /\ <<"a", "a">> \in DOMAIN baseNode
    /\ baseNode[<<"a", "a">>] = Permit.ALLOW
    /\ UnsetOnPath(baseNode, checkLog.path)

-----------------------------------------------------------------------------
(* C34: after PermissionNode.set(path, p) with p ALLOW or DENY and no later  *)
(* set, check(path, def) on the same node returns p for every default, and   *)
(* the check Permissions(path) makes on a member of a group that has the     *)
(* path set to ALLOW returns ALLOW.                                          *)
C34_CheckReturnsSetPermit ==
    (/\ checkLog # <<>>
     /\ lastSet # <<>>
     /\ checkLog.path = lastSet.path
     /\ PathNames(lastSet.path) # <<>>
     /\ lastSet.permit # Permit.NONE) =>
        \A target \in {"node", "member"}, def \in Permits :
            checkLog.results[target][def] = CheckReturned(lastSet.permit)

-----------------------------------------------------------------------------
(* C39 as stated: for every acyclic dependency graph, loadAll invokes onLoad *)
(* of each service at most once, and when onLoad(S) starts every resolvable  *)
(* dependency of S has been injected into S and has completed its own        *)
(* onLoad.                                                                   *)
\* the dependencies of s that the manager can resolve
ResolvableDependencies(s) ==
    {dependencies[s][k] : k \in 1 .. Len(dependencies[s])} \cap Resolvable

-----------------------------------------------------------------------------
(* C40: the promise returned by every queue(op) call is resolved by the next *)
(* executeAll() with the result of op, and op is called exactly once in that *)
(* drain, also when the same QueuedOperation is queued again before the      *)
(* drain: no returned promise stays pending.                                 *)
C40_QueuedPromiseResolvedByNextDrain ==
    \A k \in 1 .. Len(promises) :
        promises[k].queuedAt < Len(opCalls) =>
            /\ promises[k].state = "resolved"
            /\ promises[k].resolvedAt = promises[k].queuedAt + 1
            /\ \A j \in 1 .. Len(promises) :
                  (/\ promises[j].op = promises[k].op
                   /\ promises[j].queuedAt = promises[k].queuedAt) =>
                      j <= promises[k].value
            /\ Cardinality({i \in 1 .. Len(opCalls[promises[k].resolvedAt]) :
                               opCalls[promises[k].resolvedAt][i] = promises[k].op}) = 1

====
